---- MODULE Spec2Model ----
(***************************************************************************)
(* A model of compare.py: the fingerprint cache (HashCache), the tree      *)
(* scanner (collect_video_files), the fingerprint engine (hash_file,       *)
(* hash_map), the subtitle search (find_subtitles_for), the parsing of     *)
(* the arguments (parse_size) and the reconciler and record emission of    *)
(* main, with the failures of the file system, of the cache and the        *)
(* interrupt from the keyboard that a run may meet.                        *)
(*                                                                         *)
(* And a model of link.py: the loop of main over the records, with the     *)
(* preflight prompt, the FileBot proposal, the manual entry of a movie or  *)
(* of an episode, and hardlink_atomic step by step.                        *)
(*                                                                         *)
(* Bytes are natural numbers and a file's content is a sequence of bytes.  *)
(* A digest is the pair <<algo, stream>> of the algorithm's name and the   *)
(* byte stream fed to it: an ideal, collision-free hash function, so two   *)
(* digests are equal exactly when the same algorithm was fed the same      *)
(* bytes.  Sizes are scaled down: a chunk is one or two bytes long.        *)
(***************************************************************************)
EXTENDS Integers, Sequences, FiniteSets, TLC

\* ------------------------------------------------------------------ bounds
\* How many events the runs may meet: a file that vanishes or loses its read
\* permission, a file rewritten between two runs, the comparison run again,
\* a cache operation that fails, an interrupt from the keyboard.
MaxEvents == 2
\* Longest content drawn for the hashing functions' own specification.
MaxLen == 4
\* How many store operations the cache's own specification performs.
MaxStores == 3

\* --------------------------------------------------------------- constants
\* BUF_SIZE of _hash_stream, scaled down from 1024 * 1024.
BUF_SIZE == 2

\* b"FIRST" and b"LAST", the framing markers of _hash_partial, as bytes.
FIRST == <<70, 73, 82, 83, 84>>
LAST == <<76, 65, 83, 84>>

VIDEO_EXTS == {".mkv", ".mp4", ".m4v", ".mov", ".avi", ".wmv",
               ".ts", ".m2ts", ".mts", ".webm"}

\* str.lower() on the suffixes the model's file names carry.
Lower(s) == CASE s = ".MKV" -> ".mkv"
              [] s = ".MP4" -> ".mp4"
              [] s = ".TXT" -> ".txt"
              [] OTHER -> s

\* ----------------------------------------------------------------- hashing
Min(a, b) == IF a < b THEN a ELSE b
Max(a, b) == IF a > b THEN a ELSE b

\* f.seek(pos); f.read(n): the at most n bytes that follow position pos.
ReadAt(content, pos, n) ==
    SubSeq(content, Min(pos, Len(content)) + 1, Min(pos + n, Len(content)))

\* The bytes _hash_stream feeds to the hash object: reads of BUF_SIZE bytes
\* until a read returns nothing, each passed to h.update.
RECURSIVE StreamFrom(_, _)
StreamFrom(content, pos) ==
    LET chunk == ReadAt(content, pos, BUF_SIZE)
    IN  IF chunk = <<>> THEN <<>>
        ELSE chunk \o StreamFrom(content, pos + BUF_SIZE)

\* h.hexdigest() of a hash object of algorithm algo_name fed stream.
Digest(algo_name, stream) == <<algo_name, stream>>

_hash_stream(content, algo_name) == Digest(algo_name, StreamFrom(content, 0))

\* PartialStream, were the size of the file fed to the hash object too.
PartialStreamSized(content, chunk_size) ==
    LET size == Len(content)
        first == ReadAt(content, 0, chunk_size)
        last == ReadAt(content, Max(0, size - chunk_size), chunk_size)
    IN  FIRST \o first \o LAST \o last \o <<size>>

\* PartialStream, were the markers left out.
PartialStreamBare(content, chunk_size) ==
    LET size == Len(content)
        first == ReadAt(content, 0, chunk_size)
        last == ReadAt(content, Max(0, size - chunk_size), chunk_size)
    IN  first \o last

\* The bytes _hash_partial feeds to the hash object of a file larger than
\* twice the chunk size: the markers, each before its chunk.
PartialStream(content, chunk_size) ==
    LET size == Len(content)
        first == ReadAt(content, 0, chunk_size)
        last == ReadAt(content, Max(0, size - chunk_size), chunk_size)
    IN  FIRST \o first \o LAST \o last

\* _hash_partial, were a file of exactly twice the chunk size sampled too.
_hash_partial_below(content, algo_name, chunk_size) ==
    IF Len(content) < chunk_size * 2
    THEN _hash_stream(content, algo_name)
    ELSE Digest(algo_name, PartialStream(content, chunk_size))

_hash_partial(content, algo_name, chunk_size) ==
    IF Len(content) <= chunk_size * 2
    THEN _hash_stream(content, algo_name)
    ELSE Digest(algo_name, PartialStream(content, chunk_size))

\* hash_file, were the last chunk left out of the partial digest.
hash_file_head(content, algo, method, chunk_size) ==
    IF method = "full" \/ Len(content) <= chunk_size * 2
    THEN _hash_stream(content, algo)
    ELSE Digest(algo, FIRST \o ReadAt(content, 0, chunk_size))

hash_file(content, algo, method, chunk_size) ==
    IF method = "full"
    THEN _hash_stream(content, algo)
    ELSE _hash_partial(content, algo, chunk_size)

\* ------------------------------------------------------------------- cache
\* The value of a lookup that finds no row (None), and of a digest not yet
\* known.
None == <<>>

\* One row of table filehash.
Row(path, mtime, size, method, algo, chunk_size, digest) ==
    [path |-> path, mtime |-> mtime, size |-> size, method |-> method,
     algo |-> algo, chunk_size |-> chunk_size, hash |-> digest]

\* PrimaryKey, were the six columns of the lookup the key of the table.
PrimaryKeyTuple(r) ==
    <<r.path, r.mtime, r.size, r.method, r.algo, r.chunk_size>>

\* The columns of table filehash that form its primary key.
PrimaryKey(r) == r.path

\* CacheGet, were the row selected by its path alone.
CacheGetByPath(table, path, mtime, size, method, algo, chunk_size) ==
    LET rows == {r \in table : r.path = path}
    IN  IF rows = {} THEN None ELSE (CHOOSE r \in rows : TRUE).hash

\* HashCache.get: the hash of the row the SELECT matches, or None.
CacheGet(table, path, mtime, size, method, algo, chunk_size) ==
    LET rows == {r \in table : /\ r.path = path
                               /\ r.mtime = mtime
                               /\ r.size = size
                               /\ r.method = method
                               /\ r.algo = algo
                               /\ r.chunk_size = chunk_size}
    IN  IF rows = {} THEN None ELSE (CHOOSE r \in rows : TRUE).hash

\* CacheSet, were the row never committed.
CacheSetLost(table, path, mtime, size, method, algo, chunk_size, digest) ==
    table

\* HashCache.set: REPLACE INTO deletes the rows that conflict with the new
\* row on the primary key, then inserts the new row.
CacheSet(table, path, mtime, size, method, algo, chunk_size, digest) ==
    LET new == Row(path, mtime, size, method, algo, chunk_size, digest)
    IN  {r \in table : PrimaryKey(r) # PrimaryKey(new)} \cup {new}

\* ------------------------------------------------------------ file system
\* A path: the root it lies under and its file name, stem and suffix.
Path(root, stem, suffix) == [root |-> root, stem |-> stem, suffix |-> suffix]

SrcA == Path("src", "MovieA", ".mkv")
SrcB == Path("src", "MovieB", ".MKV")
DstA == Path("dst", "MovieA", ".mkv")
DstC == Path("dst", "MovieC", ".txt")

Paths == {SrcA, SrcB, DstA, DstC}

\* The order in which os.walk lists the files of the two trees.
WalkOrder == <<SrcA, SrcB, DstA, DstC>>

\* The contents a file may have: two of three bytes that agree on their first
\* and last byte, one that differs from the first in its last byte, and one
\* of a single byte.
ContentX == <<1, 2, 3>>
ContentY == <<1, 9, 3>>
ContentZ == <<1, 2, 4>>
ContentT == <<7>>
Contents == {ContentX, ContentY, ContentZ, ContentT}

\* What the file system holds at a path: nothing, or a regular file.
\* Field link tells how os.walk comes to the entry: "none" for a regular
\* file in a directory of the tree, "file" for a symbolic link to the
\* regular file SrcA, "dir" for a regular file in a directory that the tree
\* holds as a symbolic link.
Absent == [exists |-> FALSE, readable |-> FALSE, content |-> <<>>, mtime |-> 0,
           link |-> "none"]
File(content, mtime) ==
    [exists |-> TRUE, readable |-> TRUE, content |-> content, mtime |-> mtime,
     link |-> "none"]
FileLink ==
    [exists |-> TRUE, readable |-> TRUE, content |-> <<>>, mtime |-> 0,
     link |-> "file"]
BehindDirLink(content, mtime) == [File(content, mtime) EXCEPT !.link = "dir"]

\* What stat, open and read find at path p: they follow a symbolic link to
\* its target.
Resolve(fsys, p) == IF fsys[p].link = "file" THEN fsys[SrcA] ELSE fsys[p]

\* --min-size, --workers, --algo and --chunk-size of the runs.
MinSize == 2
Workers == 2
Algo == "blake2b"
ChunkSize == 1

\* The arguments a run may be started with: --method, --cache and --format.
Configs == [method : {"full", "partial"}, use_cache : BOOLEAN,
            format : {"text", "jsonl"}]

\* ---------------------------------------------------------------- parse_size
\* A string is the sequence of its characters.
Digits == <<"0", "1", "2", "3", "4", "5", "6", "7", "8", "9">>
IsDigit(c) == \E d \in DOMAIN Digits : Digits[d] = c
DigitValue(c) == (CHOOSE d \in DOMAIN Digits : Digits[d] = c) - 1

\* str.lower() on the characters that size strings and file names are
\* written with.
LowerChar(c) == CASE c = "K" -> "k"
                  [] c = "A" -> "a"
                  [] c = "B" -> "b"
                  [] c = "C" -> "c"
                  [] c = "M" -> "m"
                  [] c = "G" -> "g"
                  [] c = "T" -> "t"
                  [] c = "X" -> "x"
                  [] OTHER -> c

\* str.strip(): the white space at both ends is dropped.
RECURSIVE Strip(_)
Strip(s) ==
    IF s = <<>> THEN s
    ELSE IF Head(s) = " " THEN Strip(Tail(s))
    ELSE IF s[Len(s)] = " " THEN Strip(SubSeq(s, 1, Len(s) - 1))
    ELSE s

\* The value of a string of decimal digits.
RECURSIVE Decimal(_)
Decimal(s) ==
    IF s = <<>> THEN 0
    ELSE 10 * Decimal(SubSeq(s, 1, Len(s) - 1)) + DigitValue(s[Len(s)])

\* int(s) and float(s) on the strings of the model: white space at the ends
\* is ignored, and what is left must be decimal digits, at least one.
IsNumber(s) ==
    /\ Strip(s) # <<>>
    /\ \A i \in DOMAIN Strip(s) : IsDigit(Strip(s)[i])
Number(s) == Decimal(Strip(s))

\* The dict units of parse_size.
UnitChars == {"k", "m", "g", "t"}
Units(c) == CASE c = "k" -> 1024
              [] c = "m" -> 1024 * 1024
              [] c = "g" -> 1024 * 1024 * 1024
              [] c = "t" -> 1024 * 1024 * 1024 * 1024

Parsed(value) == [ok |-> TRUE, value |-> value, exc |-> ""]
Raised(exc) == [ok |-> FALSE, value |-> 0, exc |-> exc]

\* parse_size: the number of bytes, or the exception that escapes it.
parse_size(str) ==
    LET s == [i \in DOMAIN Strip(str) |-> LowerChar(Strip(str)[i])]
        n == Len(s)
    IN  IF n > 0 /\ IsDigit(s[n])
        THEN IF IsNumber(s) THEN Parsed(Number(s)) ELSE Raised("ValueError")
        ELSE IF n = 0 THEN Raised("IndexError")
        ELSE IF s[n] \in UnitChars
        THEN IF IsNumber(SubSeq(s, 1, n - 1))
             THEN Parsed(Number(SubSeq(s, 1, n - 1)) * Units(s[n]))
             ELSE Raised("ValueError")
        ELSE Raised("ArgumentTypeError")

\* The --min-size strings a run may be given: the minimum size of the model
\* in digits, a size with a unit, and four strings that do not parse.
SizeStrings ==
    {<<Digits[MinSize + 1]>>,
     <<"1", "K">>,
     <<Digits[MinSize + 1], "x">>,
     <<"x", Digits[MinSize + 1]>>,
     <<"k">>,
     <<>>}

\* What --src and --dst may name: the root of a tree, a path that does not
\* exist, and a path that is a regular file.
Exists(root) == root # "nowhere"
IsDir(root) == root \in {"src", "dst"}

\* The command lines of the model: at most one argument of the three is
\* wrong.
Argvs ==
    {a \in [min_size : SizeStrings,
            src : {"src", "nowhere", "afile"},
            dst : {"dst", "nowhere", "afile"},
            follow_symlinks : BOOLEAN] :
        Cardinality({x \in {"min_size", "src", "dst"} :
                        \/ x = "min_size" /\ ~parse_size(a.min_size).ok
                        \/ x = "src" /\ a.src # "src"
                        \/ x = "dst" /\ a.dst # "dst"}) <= 1}

\* PathsOk, were the destination not looked at.
PathsOkSrcOnly(a) == Exists(a.src) /\ IsDir(a.src)

\* main, line 233: both roots exist and are directories.
PathsOk(a) ==
    ~(\/ ~Exists(a.src) \/ ~IsDir(a.src)
      \/ ~Exists(a.dst) \/ ~IsDir(a.dst))

\* The threads of the process: the main thread and the threads of the pool.
MainThread == "main"
PoolThread == "worker"

\* One use of the connection of the cache: the operation and its thread.
ConnOp(op, thread) == [op |-> op, thread |-> thread]

VARIABLES
    fs,          \* the file system: what each path holds
    cache,       \* the rows of table filehash in the cache file
    cfg,         \* the arguments of the run
    run,         \* the number of the run
    pc,          \* where main is
    tree,        \* the tree hash_map is fingerprinting
    src_files,   \* main's src_files, in insertion order
    dst_files,   \* main's dst_files, in insertion order
    idx,         \* hash_map's position in files.values()
    out,         \* hash_map's out, in insertion order
    to_hash,     \* hash_map's to_hash
    fut,         \* the futures of the pool, one per entry of to_hash
    collected,   \* the futures as_completed has yielded, in that order
    src_hashes,  \* main's src_hashes
    dst_hashes,  \* main's dst_hashes
    missing,     \* main's missing
    emit,        \* main's position in missing
    stdout,      \* the records written to standard output
    stderr,      \* the diagnostics written to standard error
    exit_code,   \* the exit status, -1 while the run lasts
    hits,        \* the files of this hash_map call served from the cache,
                 \* in that order
    cur,         \* what this run saw of each file: its stat, its digest,
                 \* whether its content was read for hashing
    prev,        \* the same of the run before
    prev_cfg,    \* the arguments of the run before
    events,      \* how many events the runs have met
    argv,        \* the command line: --min-size, --src, --dst and
                 \* --follow-symlinks
    conn,        \* the uses this run has made of the cache's connection
    hIn,         \* hashing specification: the two contents and the chunk size
    hOut,        \* hashing specification: the digests computed
    log,         \* cache specification: the store operations performed
    asked,       \* cache specification: the last lookup and its result
    sIn,         \* subtitle specification: the directories about the video
    sOut,        \* subtitle specification: the video and the list returned
    largs,       \* linker: the arguments of link.py and whether /dev/tty
                 \* can be opened
    inputs,      \* linker: main's inputs, the records read
    lpc,         \* linker: where main is
    rec_idx,     \* linker: main's idx, the number of the record at hand
    process_all, \* linker: main's process_all
    ignore_all,  \* linker: main's ignore_all
    dst_path,    \* linker: main's dst_path
    lout,        \* linker: what was written to standard output
    lerr,        \* linker: what was written to standard error
    library,     \* linker: the files created under the library root
    lexit,       \* linker: the exit status, -1 while main runs
    trail,       \* linker: what the user answered and what main did, in
                 \* that order
    ha           \* hardlink_atomic: its arguments, its position and the
                 \* directory of the destination

vars == <<fs, cache, cfg, run, pc, tree, src_files, dst_files, idx, out,
          to_hash, fut, collected, src_hashes, dst_hashes, missing, emit,
          stdout, stderr, exit_code, hits, cur, prev, prev_cfg, events,
          argv, conn, hIn, hOut, log, asked, sIn, sOut, largs, inputs, lpc,
          rec_idx, process_all, ignore_all, dst_path, lout, lerr, library,
          lexit, trail, ha>>

\* The variables of the linker, link.py.
linkv == <<largs, inputs, lpc, rec_idx, process_all, ignore_all, dst_path,
           lout, lerr, library, lexit, trail, ha>>

\* The variables of the specifications of the hashing functions, of the
\* cache and of the subtitle search alone, and those of the linker.
aux == <<hIn, hOut, log, asked, sIn, sOut, linkv>>

\* The paths the scans of this run kept.
ScannedPaths ==
    {src_files[i].path : i \in DOMAIN src_files}
        \cup {dst_files[i].path : i \in DOMAIN dst_files}

\* ------------------------------------------------------------ dictionaries
\* A dict is the sequence of its entries [k, v] in insertion order.
Keys(d) == {d[i].k : i \in DOMAIN d}
Lookup(d, k) == (CHOOSE i \in DOMAIN d : d[i].k = k)

\* DictSet, were every write a new entry.
DictSetAppend(d, k, v) == Append(d, [k |-> k, v |-> v])

\* d[k] = v: a new key is appended, an old key keeps its place.
DictSet(d, k, v) ==
    IF k \in Keys(d)
    THEN [d EXCEPT ![Lookup(d, k)].v = v]
    ELSE Append(d, [k |-> k, v |-> v])

FileInfo(path, size) == [path |-> path, size |-> size]

\* ----------------------------------------------------------------- scanner
\* p.stat() succeeds on whatever exists; reading needs the permission too.
CanStat(f) == f.exists
CanRead(f) == f.exists /\ f.readable

\* Scanned, were the size compared the wrong way round.
ScannedSmall(fsys, p, min_size) ==
    /\ CanStat(Resolve(fsys, p))
    /\ ~(Len(Resolve(fsys, p).content) > min_size)
    /\ Lower(p.suffix) \in VIDEO_EXTS

\* The test collect_video_files applies to one directory entry.
Scanned(fsys, p, min_size) ==
    /\ CanStat(Resolve(fsys, p))
    /\ ~(Len(Resolve(fsys, p).content) < min_size)
    /\ Lower(p.suffix) \in VIDEO_EXTS

\* Walked, were a symbolic link to a file left out unless links are followed.
WalkedNoLinks(fsys, p, follow_symlinks) ==
    fsys[p].exists /\ (fsys[p].link = "none" \/ follow_symlinks)

\* os.walk(root, followlinks=follow_symlinks) lists the entry at p: a
\* symbolic link to a file is among the file names of its directory, a
\* directory that is a symbolic link is entered only when links are followed.
Walked(fsys, p, follow_symlinks) ==
    fsys[p].exists /\ (fsys[p].link = "dir" => follow_symlinks)

\* collect_video_files: the FileInfo of the files under root that pass the
\* test, in the order of the walk.
collect_video_files(fsys, root, min_size_arg, follow_symlinks) ==
    LET kept == SelectSeq(WalkOrder,
                          LAMBDA p : /\ p.root = root
                                     /\ Walked(fsys, p, follow_symlinks)
                                     /\ Scanned(fsys, p, min_size_arg))
    IN  [i \in DOMAIN kept |->
            FileInfo(kept[i], Len(Resolve(fsys, kept[i]).content))]

\* ------------------------------------------------------------- reconciler
\* IsMissing, were the test of line 257 inverted.
IsMissingInverted(h, dst_hash_set) == h \in dst_hash_set

\* main's loop over src_hashes: the paths whose digest dst_hashes lacks.
IsMissing(h, dst_hash_set) == h \notin dst_hash_set

\* Diff, were a source file matched by the name of a destination file.
DiffByName(srcH, dstH) ==
    LET names == {dstH[j].v.path.stem : j \in DOMAIN dstH}
        kept == SelectSeq(srcH, LAMBDA e : e.v.path.stem \notin names)
    IN  [i \in DOMAIN kept |-> kept[i].v.path]

\* Diff, were every scanned source file reported unless a digest of its own
\* is among the destination's: a file without a digest is then reported.
DiffScanned(srcH, dstH) ==
    LET dst_hash_set == Keys(dstH)
        kept == SelectSeq(src_files,
                          LAMBDA fi : \A j \in DOMAIN srcH :
                                         srcH[j].v.path = fi.path =>
                                             IsMissing(srcH[j].k, dst_hash_set))
    IN  [i \in DOMAIN kept |-> kept[i].path]

Diff(srcH, dstH) ==
    LET dst_hash_set == Keys(dstH)
        kept == SelectSeq(srcH, LAMBDA e : IsMissing(e.k, dst_hash_set))
    IN  [i \in DOMAIN kept |-> kept[i].v.path]

\* --------------------------------------------------------------- the run
NoSeen == [stat |-> None, digest |-> None, read |-> FALSE, stored |-> FALSE]
Blank == [p \in Paths |-> NoSeen]

Files == IF tree = "src" THEN src_files ELSE dst_files

Stat(f) == <<f.mtime, Len(f.content)>>

\* The state main starts a run in.
Start(c) ==
    /\ cfg = c
    /\ pc = "main"
    /\ conn = {}
    /\ tree = "src"
    /\ src_files = <<>> /\ dst_files = <<>>
    /\ idx = 1
    /\ out = <<>> /\ to_hash = <<>> /\ fut = <<>> /\ collected = <<>>
    /\ src_hashes = <<>> /\ dst_hashes = <<>>
    /\ missing = <<>> /\ emit = 1
    /\ stdout = <<>> /\ stderr = <<>>
    /\ exit_code = -1
    /\ hits = <<>>
    /\ cur = Blank

\* The trees a first run may find: regular files in directories of the
\* tree.
InitFs == {f \in [Paths -> {Absent} \cup {File(c, 1) : c \in Contents}] :
              /\ f[SrcA].content \in {ContentX, ContentT}
              /\ f[SrcB].content \in {<<>>, ContentX, ContentY}
              /\ f[DstC].content = ContentX}

\* link.py is not started.
LinkerIdle ==
    /\ largs = <<>> /\ inputs = <<>> /\ lpc = "idle" /\ rec_idx = 0
    /\ process_all = FALSE /\ ignore_all = FALSE /\ dst_path = <<>>
    /\ lout = <<>> /\ lerr = <<>> /\ library = {} /\ lexit = -1
    /\ trail = <<>> /\ ha = <<>>

Idle ==
    /\ hIn = <<>> /\ hOut = <<>> /\ log = <<>> /\ asked = <<>>
    /\ sIn = <<>> /\ sOut = <<>>
    /\ LinkerIdle

Init ==
    /\ fs \in InitFs
    /\ cache = {}
    /\ run = 1
    /\ \E c \in Configs : Start(c)
    /\ argv \in {a \in Argvs : ~a.follow_symlinks}
    /\ prev = Blank
    /\ prev_cfg = cfg
    /\ events = 0
    /\ Idle

\* What an exception that nothing catches leaves on standard error, and the
\* messages of lines 234 and 292.
Uncaught(exc) == [kind |-> "traceback", path |-> Path("", exc, "")]
UsageMessage == [kind |-> "usage", path |-> Path("", "", "")]
Interrupted == [kind |-> "interrupted", path |-> Path("", "", "")]

\* main's min_size, line 232.
min_size == parse_size(argv.min_size).value

\* main, lines 232 to 241: the size is parsed, the roots are checked, the
\* cache is opened.
Main ==
    /\ pc = "main"
    /\ IF ~parse_size(argv.min_size).ok
       THEN /\ stderr' = Append(stderr, Uncaught(parse_size(argv.min_size).exc))
            /\ pc' = "crashed" /\ exit_code' = 1
            /\ UNCHANGED conn
       ELSE IF ~PathsOk(argv)
       THEN /\ stderr' = Append(stderr, UsageMessage)
            /\ pc' = "usage" /\ exit_code' = 2
            /\ UNCHANGED conn
       ELSE /\ conn' = IF cfg.use_cache
                       THEN conn \cup {ConnOp("open", MainThread)}
                       ELSE conn
            /\ pc' = "scan_src"
            /\ UNCHANGED <<stderr, exit_code>>
    /\ UNCHANGED <<aux, argv>>
    /\ UNCHANGED <<fs, cache, cfg, run, tree, src_files, dst_files, idx, out,
                   to_hash, fut, collected, src_hashes, dst_hashes, missing,
                   emit, stdout, hits, cur, prev, prev_cfg, events>>

\* main, line 241: the cache cannot be opened, and the exception of
\* HashCache.__init__ is caught nowhere.
OpenCacheError ==
    /\ pc = "main"
    /\ parse_size(argv.min_size).ok /\ PathsOk(argv)
    /\ cfg.use_cache
    /\ events < MaxEvents
    /\ events' = events + 1
    /\ conn' = conn \cup {ConnOp("open failed", MainThread)}
    /\ stderr' = Append(stderr, Uncaught("OperationalError"))
    /\ pc' = "crashed" /\ exit_code' = 1
    /\ UNCHANGED <<aux, argv>>
    /\ UNCHANGED <<fs, cache, cfg, run, tree, src_files, dst_files, idx, out,
                   to_hash, fut, collected, src_hashes, dst_hashes, missing,
                   emit, stdout, hits, cur, prev, prev_cfg>>

\* main, lines 244 and 245: the two scans.
ScanSrc ==
    /\ pc = "scan_src"
    /\ src_files' = collect_video_files(fs, argv.src, min_size,
                                         argv.follow_symlinks)
    /\ pc' = "scan_dst"
    /\ UNCHANGED <<aux, argv, conn>>
    /\ UNCHANGED <<fs, cache, cfg, run, tree, dst_files, idx, out, to_hash,
                   fut, collected, src_hashes, dst_hashes, missing, emit,
                   stdout, stderr, exit_code, hits, cur, prev, prev_cfg,
                   events>>

ScanDst ==
    /\ pc = "scan_dst"
    /\ dst_files' = collect_video_files(fs, argv.dst, min_size,
                                         argv.follow_symlinks)
    /\ pc' = "call_src"
    /\ UNCHANGED <<aux, argv, conn>>
    /\ UNCHANGED <<fs, cache, cfg, run, tree, src_files, idx, out, to_hash,
                   fut, collected, src_hashes, dst_hashes, missing, emit,
                   stdout, stderr, exit_code, hits, cur, prev, prev_cfg,
                   events>>

\* hash_map is entered: out and to_hash are empty.
HashMapEnter ==
    /\ pc \in {"call_src", "call_dst"}
    /\ tree' = IF pc = "call_src" THEN "src" ELSE "dst"
    /\ out' = <<>> /\ to_hash' = <<>> /\ fut' = <<>> /\ collected' = <<>>
    /\ idx' = 1
    /\ hits' = <<>>
    /\ pc' = "probe"
    /\ UNCHANGED <<aux, argv, conn>>
    /\ UNCHANGED <<fs, cache, cfg, run, src_files, dst_files, src_hashes,
                   dst_hashes, missing, emit, stdout, stderr, exit_code, cur,
                   prev, prev_cfg, events>>

\* hash_map, lines 151 to 165: one turn of the loop over files.values().
Probe ==
    /\ pc = "probe"
    /\ idx <= Len(Files)
    /\ LET fi == Files[idx]
           f == Resolve(fs, fi.path)
           cached == IF cfg.use_cache /\ CanStat(f)
                     THEN CacheGet(cache, fi.path, f.mtime, Len(f.content),
                                   cfg.method, Algo, ChunkSize)
                     ELSE None
       IN  IF ~CanStat(f)
           THEN UNCHANGED <<out, to_hash, hits, cur>>
           ELSE IF cached # None
           THEN /\ out' = DictSet(out, cached, fi)
                /\ hits' = Append(hits, [fi |-> fi, digest |-> cached])
                /\ cur' = [cur EXCEPT ![fi.path].stat = Stat(f),
                                      ![fi.path].digest = cached,
                                      ![fi.path].stored = TRUE]
                /\ UNCHANGED to_hash
           ELSE /\ to_hash' = Append(to_hash, fi)
                /\ cur' = [cur EXCEPT ![fi.path].stat = Stat(f)]
                /\ UNCHANGED <<out, hits>>
    /\ idx' = idx + 1
    /\ conn' = IF cfg.use_cache /\ CanStat(Resolve(fs, Files[idx].path))
               THEN conn \cup {ConnOp("get", MainThread)}
               ELSE conn
    /\ UNCHANGED <<aux, argv>>
    /\ UNCHANGED <<fs, cache, cfg, run, pc, tree, src_files, dst_files, fut,
                   collected, src_hashes, dst_hashes, missing, emit, stdout,
                   stderr, exit_code, prev, prev_cfg, events>>

\* hash_map, line 161: cache.get raises, and nothing catches the exception.
ProbeCacheError ==
    /\ pc = "probe"
    /\ idx <= Len(Files)
    /\ cfg.use_cache
    /\ CanStat(Resolve(fs, Files[idx].path))
    /\ events < MaxEvents
    /\ events' = events + 1
    /\ conn' = conn \cup {ConnOp("get failed", MainThread)}
    /\ stderr' = Append(stderr, Uncaught("OperationalError"))
    /\ pc' = "crashed" /\ exit_code' = 1
    /\ UNCHANGED <<aux, argv>>
    /\ UNCHANGED <<fs, cache, cfg, run, tree, src_files, dst_files, idx, out,
                   to_hash, fut, collected, src_hashes, dst_hashes, missing,
                   emit, stdout, hits, cur, prev, prev_cfg>>

\* hash_map, lines 166 to 169: the early return, or every entry of to_hash
\* is submitted to the pool.
Submit ==
    /\ pc = "probe"
    /\ idx > Len(Files)
    /\ IF to_hash = <<>>
       THEN pc' = "return" /\ UNCHANGED fut
       ELSE /\ pc' = "pool"
            /\ fut' = [i \in DOMAIN to_hash |-> [st |-> "pending", digest |-> None]]
    /\ UNCHANGED <<aux, argv, conn>>
    /\ UNCHANGED <<fs, cache, cfg, run, tree, src_files, dst_files, idx, out,
                   to_hash, collected, src_hashes, dst_hashes, missing, emit,
                   stdout, stderr, exit_code, hits, cur, prev, prev_cfg,
                   events>>

Running == {i \in DOMAIN fut : fut[i].st = "running"}

\* A free worker of the pool takes the oldest pending call of hash_file.
WorkerStart(i) ==
    /\ pc \in {"pool", "shutdown"}
    /\ fut[i].st = "pending"
    /\ \A j \in DOMAIN fut : j < i => fut[j].st # "pending"
    /\ Cardinality(Running) < Workers
    /\ fut' = [fut EXCEPT ![i].st = "running"]
    /\ UNCHANGED <<aux, argv, conn>>
    /\ UNCHANGED <<fs, cache, cfg, run, pc, tree, src_files, dst_files, idx,
                   out, to_hash, collected, src_hashes, dst_hashes, missing,
                   emit, stdout, stderr, exit_code, hits, cur, prev, prev_cfg,
                   events>>

\* The worker's call of hash_file ends: with the digest of what the file
\* holds, or with the exception of a stat, an open or a read that failed.
WorkerFinish(i) ==
    /\ pc \in {"pool", "shutdown"}
    /\ fut[i].st = "running"
    /\ LET path == to_hash[i].path
           f == Resolve(fs, path)
       IN  IF CanRead(f)
           THEN /\ fut' = [fut EXCEPT ![i] =
                              [st |-> "ok",
                               digest |-> hash_file(f.content, Algo, cfg.method,
                                                    ChunkSize)]]
                /\ cur' = [cur EXCEPT ![path].read = TRUE]
           ELSE /\ fut' = [fut EXCEPT ![i].st = "err"]
                /\ UNCHANGED cur
    /\ UNCHANGED <<aux, argv, conn>>
    /\ UNCHANGED <<fs, cache, cfg, run, pc, tree, src_files, dst_files, idx,
                   out, to_hash, collected, src_hashes, dst_hashes, missing,
                   emit, stdout, stderr, exit_code, hits, prev, prev_cfg,
                   events>>

\* The diagnostic of line 175.
HashError(path) == [kind |-> "hash error", path |-> path]

\* What line 175 does with a future that raised.
Report(err, path) == Append(err, HashError(path))

\* Merge, were the first file of a digest kept (out.setdefault).
MergeFirst(d, digest, fi) ==
    IF digest \in Keys(d) THEN d ELSE Append(d, [k |-> digest, v |-> fi])

\* What lines 177 to 183 do with a digest: out[digest] = fi.
Merge(d, digest, fi) == DictSet(d, digest, fi)

Yielded == {collected[n] : n \in DOMAIN collected}

\* StoreThread, were cache.set called by hash_file's worker.
StoreThreadWorker(i) == PoolThread

\* The thread that runs lines 178 to 183 for future i: the loop over
\* as_completed is main's.
StoreThread(i) == MainThread

\* hash_map, lines 170 to 183, for a future that is done; stored tells
\* whether cache.set returned or raised.
CollectStep(i, stored) ==
    /\ pc = "pool"
    /\ i \in DOMAIN fut
    /\ i \notin Yielded
    /\ fut[i].st \in {"ok", "err"}
    /\ collected' = Append(collected, i)
    /\ LET fi == to_hash[i]
           f == Resolve(fs, fi.path)
           digest == fut[i].digest
       IN  IF fut[i].st = "err"
           THEN /\ stderr' = Report(stderr, fi.path)
                /\ UNCHANGED <<out, cache, cur, conn>>
           ELSE /\ out' = Merge(out, digest, fi)
                /\ cur' = [cur EXCEPT ![fi.path].digest = digest,
                                      ![fi.path].stored =
                                          cfg.use_cache /\ CanStat(f) /\ stored]
                /\ cache' = IF cfg.use_cache /\ CanStat(f) /\ stored
                            THEN CacheSet(cache, fi.path, f.mtime,
                                          Len(f.content), cfg.method, Algo,
                                          ChunkSize, digest)
                            ELSE cache
                /\ conn' = IF cfg.use_cache /\ CanStat(f)
                           THEN conn \cup {ConnOp(IF stored THEN "set"
                                                            ELSE "set failed",
                                                  StoreThread(i))}
                           ELSE conn
                /\ UNCHANGED stderr
    /\ UNCHANGED <<aux, argv>>
    /\ UNCHANGED <<fs, cfg, run, pc, tree, src_files, dst_files, idx, to_hash,
                   fut, src_hashes, dst_hashes, missing, emit, stdout,
                   exit_code, hits, prev, prev_cfg>>

\* as_completed yields a future that is done, and its digest is stored.
Collect(i) ==
    /\ CollectStep(i, TRUE)
    /\ UNCHANGED events

\* The same, but cache.set raises: lines 182 and 183 swallow the exception.
CollectCacheError(i) ==
    /\ i \in DOMAIN fut
    /\ fut[i].st = "ok"
    /\ cfg.use_cache
    /\ CanStat(Resolve(fs, to_hash[i].path))
    /\ events < MaxEvents
    /\ events' = events + 1
    /\ CollectStep(i, FALSE)

\* A KeyboardInterrupt reaches main while it waits in as_completed: the
\* with statement of line 168 is left through the executor's __exit__, which
\* is shutdown(wait=True).  The calls still queued are not cancelled.
Interrupt ==
    /\ pc = "pool"
    /\ events < MaxEvents
    /\ events' = events + 1
    /\ pc' = "shutdown"
    /\ UNCHANGED <<aux, argv, conn>>
    /\ UNCHANGED <<fs, cache, cfg, run, tree, src_files, dst_files, idx, out,
                   to_hash, fut, collected, src_hashes, dst_hashes, missing,
                   emit, stdout, stderr, exit_code, hits, cur, prev, prev_cfg>>

\* Every call of the pool has ended: the interrupt leaves main and lines 291
\* to 293 end the process.
Exit130 ==
    /\ pc = "shutdown"
    /\ \A i \in DOMAIN fut : fut[i].st \in {"ok", "err"}
    /\ stderr' = Append(stderr, Interrupted)
    /\ pc' = "interrupted" /\ exit_code' = 130
    /\ UNCHANGED <<aux, argv, conn>>
    /\ UNCHANGED <<fs, cache, cfg, run, tree, src_files, dst_files, idx, out,
                   to_hash, fut, collected, src_hashes, dst_hashes, missing,
                   emit, stdout, hits, cur, prev, prev_cfg, events>>

\* Every future was yielded: the pool is shut down and the loop ends.
PoolEnd ==
    /\ pc = "pool"
    /\ Yielded = DOMAIN fut
    /\ pc' = "return"
    /\ UNCHANGED <<aux, argv, conn>>
    /\ UNCHANGED <<fs, cache, cfg, run, tree, src_files, dst_files, idx, out,
                   to_hash, fut, collected, src_hashes, dst_hashes, missing,
                   emit, stdout, stderr, exit_code, hits, cur, prev, prev_cfg,
                   events>>

\* hash_map returns out to main, lines 248 and 249.
HashMapReturn ==
    /\ pc = "return"
    /\ IF tree = "src"
       THEN src_hashes' = out /\ pc' = "call_dst" /\ UNCHANGED dst_hashes
       ELSE dst_hashes' = out /\ pc' = "diff" /\ UNCHANGED src_hashes
    /\ conn' = IF tree = "dst" /\ cfg.use_cache
               THEN conn \cup {ConnOp("close", MainThread)}
               ELSE conn
    /\ UNCHANGED <<aux, argv>>
    /\ UNCHANGED <<fs, cache, cfg, run, tree, src_files, dst_files, idx, out,
                   to_hash, fut, collected, missing, emit, stdout, stderr,
                   exit_code, hits, cur, prev, prev_cfg, events>>

\* The record main builds for a missing path, from the path and its stat.
Record(p, f) ==
    [src |-> p, name |-> p.stem, ext |-> p.suffix, size |-> Len(f.content)]

\* Line, were the line of the text format written whatever the format.
LineAsText(format, rec) ==
    [kind |-> "text", src |-> rec.src, name |-> "", ext |-> "", size |-> 0]

\* What main writes to standard output for a record: its JSON line, or the
\* line "- <src>" of the text format.
Line(format, rec) ==
    IF format = "jsonl"
    THEN [kind |-> "json", src |-> rec.src, name |-> rec.name,
          ext |-> rec.ext, size |-> rec.size]
    ELSE [kind |-> "text", src |-> rec.src, name |-> "", ext |-> "", size |-> 0]

\* The line "All matched." of the text format.
AllMatched ==
    [kind |-> "all matched", src |-> Path("", "", ""), name |-> "", ext |-> "",
     size |-> 0]

\* main, lines 254 to 263: the missing list, and the return when it is empty.
Reconcile ==
    /\ pc = "diff"
    /\ missing' = Diff(src_hashes, dst_hashes)
    /\ IF missing' = <<>>
       THEN /\ pc' = "done" /\ exit_code' = 0
            /\ stdout' = IF cfg.format = "text"
                         THEN Append(stdout, AllMatched)
                         ELSE stdout
       ELSE pc' = "emit" /\ UNCHANGED <<exit_code, stdout>>
    /\ emit' = 1
    /\ UNCHANGED <<aux, argv, conn>>
    /\ UNCHANGED <<fs, cache, cfg, run, tree, src_files, dst_files, idx, out,
                   to_hash, fut, collected, src_hashes, dst_hashes, stderr,
                   hits, cur, prev, prev_cfg, events>>

\* The traceback of an exception that main does not catch.
Traceback(path) == [kind |-> "traceback", path |-> path]

\* main, lines 266 to 286: one turn of the loop over missing.  p.stat() is
\* outside every try: when it raises, the process ends with the traceback.
Emit ==
    /\ pc = "emit"
    /\ IF emit > Len(missing)
       THEN /\ pc' = "done" /\ exit_code' = 0
            /\ UNCHANGED <<emit, stdout, stderr>>
       ELSE LET p == missing[emit]
            IN  IF CanStat(Resolve(fs, p))
                THEN /\ stdout' = Append(stdout,
                                      Line(cfg.format,
                                           Record(p, Resolve(fs, p))))
                     /\ emit' = emit + 1
                     /\ UNCHANGED <<pc, exit_code, stderr>>
                ELSE /\ stderr' = Append(stderr, Traceback(p))
                     /\ pc' = "crashed" /\ exit_code' = 1
                     /\ UNCHANGED <<emit, stdout>>
    /\ UNCHANGED <<aux, argv, conn>>
    /\ UNCHANGED <<fs, cache, cfg, run, tree, src_files, dst_files, idx, out,
                   to_hash, fut, collected, src_hashes, dst_hashes, missing,
                   hits, cur, prev, prev_cfg, events>>

\* -------------------------------------------------------- the environment
InRun == pc \in {"call_src", "call_dst", "probe", "pool", "shutdown",
                "return", "diff", "emit"}

\* A scanned file is deleted while the run lasts.
Vanish(p) ==
    /\ InRun
    /\ events < MaxEvents
    /\ p \in ScannedPaths
    /\ fs[p].exists
    /\ fs' = [fs EXCEPT ![p] = Absent]
    /\ events' = events + 1
    /\ UNCHANGED <<aux, argv, conn>>
    /\ UNCHANGED <<cache, cfg, run, pc, tree, src_files, dst_files, idx, out,
                   to_hash, fut, collected, src_hashes, dst_hashes, missing,
                   emit, stdout, stderr, exit_code, hits, cur, prev, prev_cfg>>

\* A scanned file loses its read permission while the run lasts.
Revoke(p) ==
    /\ InRun
    /\ events < MaxEvents
    /\ p \in ScannedPaths
    /\ fs[p].exists /\ fs[p].readable
    /\ fs[p].link # "file"
    /\ fs' = [fs EXCEPT ![p].readable = FALSE]
    /\ events' = events + 1
    /\ UNCHANGED <<aux, argv, conn>>
    /\ UNCHANGED <<cache, cfg, run, pc, tree, src_files, dst_files, idx, out,
                   to_hash, fut, collected, src_hashes, dst_hashes, missing,
                   emit, stdout, stderr, exit_code, hits, cur, prev, prev_cfg>>

Ended == pc \in {"done", "crashed", "usage", "interrupted"}

\* The contents a file may be rewritten with.
Rewrites == {ContentY, ContentZ}

\* Between two runs, before the later run scans, a video file is written
\* anew: other bytes, a later mtime.
Touch(p, c) ==
    /\ pc = "main"
    /\ run > 1
    /\ events < MaxEvents
    /\ fs[p].exists
    /\ fs[p].link = "none"
    /\ Lower(p.suffix) \in VIDEO_EXTS
    /\ c # fs[p].content
    /\ fs' = [fs EXCEPT ![p] = File(c, run)]
    /\ events' = events + 1
    /\ UNCHANGED <<aux, argv, conn>>
    /\ UNCHANGED <<cache, cfg, run, pc, tree, src_files, dst_files, idx, out,
                   to_hash, fut, collected, src_hashes, dst_hashes, missing,
                   emit, stdout, stderr, exit_code, hits, cur, prev, prev_cfg>>

\* The comparison is run again, over the same trees and with the same
\* --cache and --format arguments.
NewRun(c) ==
    /\ Ended
    /\ events < MaxEvents
    /\ events' = events + 1
    /\ c.use_cache = cfg.use_cache
    /\ c.format = cfg.format
    /\ run' = run + 1
    /\ cfg' = c
    /\ pc' = "main"
    /\ conn' = {}
    /\ tree' = "src"
    /\ src_files' = <<>> /\ dst_files' = <<>>
    /\ idx' = 1
    /\ out' = <<>> /\ to_hash' = <<>> /\ fut' = <<>> /\ collected' = <<>>
    /\ src_hashes' = <<>> /\ dst_hashes' = <<>>
    /\ missing' = <<>> /\ emit' = 1
    /\ stdout' = <<>> /\ stderr' = <<>>
    /\ exit_code' = -1
    /\ hits' = <<>>
    /\ cur' = Blank
    /\ prev' = cur
    /\ prev_cfg' = cfg
    /\ UNCHANGED <<aux, argv>>
    /\ UNCHANGED <<fs, cache>>

Next ==
    \/ Main
    \/ OpenCacheError
    \/ ScanSrc
    \/ ScanDst
    \/ HashMapEnter
    \/ Probe
    \/ ProbeCacheError
    \/ Submit
    \/ \E i \in DOMAIN fut : WorkerStart(i)
    \/ \E i \in DOMAIN fut : WorkerFinish(i)
    \/ \E i \in DOMAIN fut : Collect(i)
    \/ \E i \in DOMAIN fut : CollectCacheError(i)
    \/ Interrupt
    \/ Exit130
    \/ PoolEnd
    \/ HashMapReturn
    \/ Reconcile
    \/ Emit
    \/ \E p \in Paths : Vanish(p)
    \/ \E p \in Paths : Revoke(p)
    \/ \E p \in Paths, c \in Rewrites : Touch(p, c)
    \/ \E c \in Configs : NewRun(c)

Spec == Init /\ [][Next]_vars

\* ------------------------------------------------ trees with symbolic links
\* The source tree holds the regular file SrcA and, at SrcB, a symbolic link
\* to SrcA or a file in a directory that is a symbolic link.
LinkFs ==
    {f \in [Paths -> {Absent, FileLink} \cup {File(c, 1) : c \in Contents}
                        \cup {BehindDirLink(c, 1) : c \in Contents}] :
        /\ f[SrcA] = File(ContentX, 1)
        /\ f[SrcB] \in {FileLink, BehindDirLink(ContentX, 1)}
        /\ f[DstA] \in {Absent, File(ContentX, 1), File(ContentY, 1)}
        /\ f[DstC] = File(ContentX, 1)}

LinkInit ==
    /\ fs \in LinkFs
    /\ cache = {}
    /\ run = 1
    /\ \E c \in Configs : Start(c)
    /\ argv \in Argvs
    /\ prev = Blank
    /\ prev_cfg = cfg
    /\ events = 0
    /\ Idle

SpecLink == LinkInit /\ [][Next]_vars

\* ------------------------------------- a file rewritten while it is hashed
\* Another process rewrites file p after a worker has hashed it and before
\* main reads its metadata at line 180: its content and its mtime change.
Modify(p, c) ==
    /\ pc = "pool"
    /\ events < MaxEvents
    /\ \E i \in DOMAIN fut : /\ to_hash[i].path = p
                             /\ fut[i].st = "ok"
                             /\ i \notin Yielded
    /\ fs[p].exists
    /\ fs[p].link = "none"
    /\ c # fs[p].content
    /\ fs' = [fs EXCEPT ![p] = File(c, fs[p].mtime + 1)]
    /\ events' = events + 1
    /\ UNCHANGED <<aux, argv, conn>>
    /\ UNCHANGED <<cache, cfg, run, pc, tree, src_files, dst_files, idx, out,
                   to_hash, fut, collected, src_hashes, dst_hashes, missing,
                   emit, stdout, stderr, exit_code, hits, cur, prev, prev_cfg>>

\* The runs with the cache, over trees whose files are rewritten by others.
RaceInit ==
    /\ Init
    /\ cfg.use_cache
    /\ parse_size(argv.min_size).ok /\ PathsOk(argv)

RaceNext ==
    \/ Main
    \/ ScanSrc
    \/ ScanDst
    \/ HashMapEnter
    \/ Probe
    \/ Submit
    \/ \E i \in DOMAIN fut : WorkerStart(i)
    \/ \E i \in DOMAIN fut : WorkerFinish(i)
    \/ \E i \in DOMAIN fut : Collect(i)
    \/ PoolEnd
    \/ HashMapReturn
    \/ Reconcile
    \/ Emit
    \/ \E p \in Paths, c \in Rewrites : Modify(p, c)
    \/ \E c \in Configs : NewRun(c)

SpecRace == RaceInit /\ [][RaceNext]_vars

\* ------------------------------------------- the hashing functions alone
\* The bytes and the chunk sizes the contents are drawn from.
MaxByte == 1
MaxChunk == 2
Bytes == 0 .. MaxByte

RECURSIVE SeqsUpTo(_)
SeqsUpTo(n) ==
    IF n = 0 THEN {<<>>}
    ELSE LET shorter == SeqsUpTo(n - 1)
         IN  shorter \cup {Append(q, b) : q \in {t \in shorter : Len(t) = n - 1},
                                          b \in Bytes}

\* No run: main is not started.
NoRun ==
    /\ fs = [p \in Paths |-> Absent]
    /\ run = 1
    /\ Start([method |-> "partial", use_cache |-> TRUE, format |-> "jsonl"])
    /\ argv = [min_size |-> <<Digits[MinSize + 1]>>, src |-> "src",
               dst |-> "dst", follow_symlinks |-> FALSE]
    /\ prev = Blank
    /\ prev_cfg = cfg
    /\ events = 0

HashInit ==
    /\ NoRun
    /\ cache = {}
    /\ hIn \in [a : SeqsUpTo(MaxLen), b : SeqsUpTo(MaxLen), chunk_size : 1 .. MaxChunk]
    /\ hOut = <<>>
    /\ log = <<>>
    /\ asked = <<>>
    /\ sIn = <<>> /\ sOut = <<>>
    /\ LinkerIdle

\* hash_file is called on the two files, with one method.
HashPair(method) ==
    /\ Len(hOut) < 2
    /\ hOut' = Append(hOut,
                      [method |-> method,
                       a |-> hash_file(hIn.a, Algo, method, hIn.chunk_size),
                       b |-> hash_file(hIn.b, Algo, method, hIn.chunk_size)])
    /\ UNCHANGED <<fs, cache, cfg, run, pc, tree, src_files, dst_files, idx,
                   out, to_hash, fut, collected, src_hashes, dst_hashes,
                   missing, emit, stdout, stderr, exit_code, hits, cur, prev,
                   prev_cfg, events, argv, conn, hIn, log, asked, sIn, sOut,
                   linkv>>

HashNext ==
    \/ HashPair("partial")
    \/ HashPair("full")

SpecHash == HashInit /\ [][HashNext]_vars

\* ---------------------------------------------------------- the cache alone
\* The key tuples the operations are drawn from: one tuple, and the tuples
\* that differ from it in one component.
Key(path, mtime, size, method, algo, chunk_size) ==
    [path |-> path, mtime |-> mtime, size |-> size, method |-> method,
     algo |-> algo, chunk_size |-> chunk_size]

Key0 == Key(SrcA, 1, 3, "partial", "blake2b", 1)

KeySpace ==
    {Key0,
     [Key0 EXCEPT !.path = SrcB],
     [Key0 EXCEPT !.mtime = 2],
     [Key0 EXCEPT !.size = 4],
     [Key0 EXCEPT !.method = "full"],
     [Key0 EXCEPT !.algo = "sha256"],
     [Key0 EXCEPT !.chunk_size = 2]}

DigestSpace == {Digest("blake2b", ContentX), Digest("blake2b", ContentY)}

CacheInit ==
    /\ NoRun
    /\ cache = {}
    /\ log = <<>>
    /\ asked = <<>>
    /\ hIn = <<>>
    /\ hOut = <<>>
    /\ sIn = <<>> /\ sOut = <<>>
    /\ LinkerIdle

\* cache.set(k, digest)
Store(k, digest) ==
    /\ Len(log) < MaxStores
    /\ cache' = CacheSet(cache, k.path, k.mtime, k.size, k.method, k.algo,
                         k.chunk_size, digest)
    /\ log' = Append(log, [key |-> k, digest |-> digest])
    /\ UNCHANGED <<fs, cfg, run, pc, tree, src_files, dst_files, idx, out,
                   to_hash, fut, collected, src_hashes, dst_hashes, missing,
                   emit, stdout, stderr, exit_code, hits, cur, prev, prev_cfg,
                   events, argv, conn, hIn, hOut, asked,
                   sIn, sOut, linkv>>

\* cache.get(k): asked keeps the key, the result and how many stores preceded.
Ask(k) ==
    /\ asked' = [key |-> k,
                 result |-> CacheGet(cache, k.path, k.mtime, k.size, k.method,
                                     k.algo, k.chunk_size),
                 at |-> Len(log)]
    /\ UNCHANGED <<fs, cache, cfg, run, pc, tree, src_files, dst_files, idx,
                   out, to_hash, fut, collected, src_hashes, dst_hashes,
                   missing, emit, stdout, stderr, exit_code, hits, cur, prev,
                   prev_cfg, events, argv, conn, hIn, hOut, log, sIn, sOut,
                   linkv>>

CacheNext ==
    \/ \E k \in KeySpace, d \in DigestSpace : Store(k, d)
    \/ \E k \in KeySpace : Ask(k)

SpecCache == CacheInit /\ [][CacheNext]_vars

\* --------------------------------------------------- find_subtitles_for alone
SUB_EXTS == {".srt", ".sub", ".ass", ".vtt", ".idx"}

\* str.lower() on a stem, and on the suffixes of the directory entries.
LowerStr(s) == [i \in DOMAIN s |-> LowerChar(s[i])]
LowerSuffix(x) == CASE x = ".SRT" -> ".srt"
                    [] x = ".TXT" -> ".txt"
                    [] OTHER -> x

\* needle in hay, and hay.startswith(needle).
Contains(hay, needle) ==
    \E i \in 0 .. Len(hay) - Len(needle) :
        SubSeq(hay, i + 1, i + Len(needle)) = needle
StartsWith(hay, needle) ==
    /\ Len(needle) <= Len(hay)
    /\ SubSeq(hay, 1, Len(needle)) = needle

\* set(s.split()): the maximal runs of characters of s that are not white
\* space.
Tokens(s) ==
    {SubSeq(s, i, j) : <<i, j>> \in
        {ij \in (DOMAIN s) \X (DOMAIN s) :
            /\ ij[1] <= ij[2]
            /\ \A n \in ij[1] .. ij[2] : s[n] # " "
            /\ (ij[1] = 1 \/ s[ij[1] - 1] = " ")
            /\ (ij[2] = Len(s) \/ s[ij[2] + 1] = " ")}}

\* The tests of lines 198 to 201: a regular file with a subtitle extension.
IsSubtitle(e) == e.is_file /\ LowerSuffix(e.suffix) \in SUB_EXTS

\* Rule1, were the prefix test the only one.
Rule1Prefix(stem, e) == StartsWith(LowerStr(e.stem), LowerStr(stem))

\* The test of line 202.
Rule1(stem, e) ==
    \/ Contains(LowerStr(e.stem), LowerStr(stem))
    \/ StartsWith(LowerStr(e.stem), LowerStr(stem))

\* The test of line 211.
Loosened(stem, e) ==
    Tokens(LowerStr(stem)) \cap Tokens(LowerStr(e.stem)) # {}

\* str(p) of the entry e of directory d.
SubPath(d, e) == [dir |-> d, stem |-> e.stem, suffix |-> e.suffix]

\* SearchDir, were the test of line 205 made on the matches of directory d
\* alone and not on the list shared by the directories.
SearchDirAlone(acc, stem, d, dir) ==
    IF ~dir.listable THEN acc
    ELSE LET first == SelectSeq(dir.entries,
                                LAMBDA e : IsSubtitle(e) /\ Rule1(stem, e))
             loose == SelectSeq(dir.entries,
                                LAMBDA e : IsSubtitle(e) /\ Loosened(stem, e))
         IN  IF first = <<>>
             THEN acc \o [i \in DOMAIN loose |-> SubPath(d, loose[i])]
             ELSE acc \o [i \in DOMAIN first |-> SubPath(d, first[i])]

\* One turn of the loop of line 195 over directory d: iterdir raises
\* PermissionError and the list out (acc) is left as it is, or the entries that pass line
\* 202 are appended and, if out is then still empty, those that pass line 211.
SearchDir(acc, stem, d, dir) ==
    IF ~dir.listable THEN acc
    ELSE LET first == SelectSeq(dir.entries,
                                LAMBDA e : IsSubtitle(e) /\ Rule1(stem, e))
             out1 == acc \o [i \in DOMAIN first |-> SubPath(d, first[i])]
             loose == SelectSeq(dir.entries,
                                LAMBDA e : IsSubtitle(e) /\ Loosened(stem, e))
         IN  IF out1 = <<>>
             THEN [i \in DOMAIN loose |-> SubPath(d, loose[i])]
             ELSE out1

\* find_subtitles_for: the parent directory, then Subs if it is a directory.
find_subtitles_for(stem, dirs) ==
    LET acc == SearchDir(<<>>, stem, "parent", dirs.parent)
    IN  IF dirs.subs.is_dir
        THEN SearchDir(acc, stem, "Subs", dirs.subs)
        ELSE acc

\* The stems of the videos, and the entries a directory may hold: for the
\* video "a b", a subtitle that holds its stem, one that shares a token
\* only, one that shares nothing; for the video "A", one that holds its stem
\* inside a token; a directory and a text file whose names hold both stems.
VideoStems == {<<"a", " ", "b">>, <<"A">>}
Entry(stem, suffix, is_file) ==
    [stem |-> stem, suffix |-> suffix, is_file |-> is_file]
Entries ==
    {Entry(<<"A", " ", "b", " ", "c">>, ".srt", TRUE),
     Entry(<<"b", " ", "c">>, ".SRT", TRUE),
     Entry(<<"c">>, ".srt", TRUE),
     Entry(<<"c", "a">>, ".sub", TRUE),
     Entry(<<"a", " ", "b">>, ".srt", FALSE),
     Entry(<<"a", " ", "b">>, ".txt", TRUE)}

\* How many entries a directory holds at most.
MaxEntries == 2

\* The listings iterdir may yield: entries of distinct names, in any order.
Listings ==
    {q \in UNION {[1 .. n -> Entries] : n \in 0 .. MaxEntries} :
        \A i, j \in DOMAIN q : q[i] = q[j] => i = j}

SubsInputs ==
    [parent : [listable : BOOLEAN, entries : Listings],
     subs : [is_dir : BOOLEAN, listable : BOOLEAN, entries : Listings]]

SubsInit ==
    /\ NoRun
    /\ cache = {}
    /\ hIn = <<>> /\ hOut = <<>> /\ log = <<>> /\ asked = <<>>
    /\ sIn \in SubsInputs
    /\ sOut = <<>>
    /\ LinkerIdle

\* find_subtitles_for is called for a video of the parent directory.
FindSubtitles(stem) ==
    /\ sOut = <<>>
    /\ sOut' = <<[stem |-> stem, subtitles |-> find_subtitles_for(stem, sIn)]>>
    /\ UNCHANGED <<fs, cache, cfg, run, pc, tree, src_files, dst_files, idx,
                   out, to_hash, fut, collected, src_hashes, dst_hashes,
                   missing, emit, stdout, stderr, exit_code, hits, cur, prev,
                   prev_cfg, events, argv, conn, hIn, hOut, log, asked, sIn,
                   linkv>>

SubsNext ==
    \/ FindSubtitles(<<"a", " ", "b">>)
    \/ FindSubtitles(<<"A">>)

SpecSubs == SubsInit /\ [][SubsNext]_vars

\* ======================================================= link.py: linking
\* A file of a directory: its content and its inode; None where nothing is.
Inode(content, inode) == [content |-> content, inode |-> inode]

\* The errnos os.link may fail with in the model, "" when it succeeds, and
\* those of lines 65-67.
Errnos == {"EPERM", "EXDEV", "EACCES", "EEXIST", "EMLINK"}
CopyErrnos == {"EPERM", "EXDEV", "EACCES"}

\* The test of line 65: the copy is made in place of the link.
MayCopy(fallback_copy, err) == fallback_copy /\ err \in CopyErrnos

\* CopyTarget, were the copy written to the destination itself.
CopyTargetDst == "dst"

\* The path shutil.copy2 writes to at line 68: tmp.
CopyTarget == "tmp"

\* The contents of the source and what the destination and tmp may hold
\* when hardlink_atomic is called.
SrcContents == {<<1, 2>>, <<1, 2, 3>>}
PriorDst == {None, Inode(<<9>>, "old"), Inode(<<1>>, "old")}
PriorTmp == {None, Inode(<<8>>, "stale")}

\* hardlink_atomic is called: src, the directory of dst and fallback_copy.
HaCall(content, dst, tmp, fallback_copy) ==
    [pc |-> "mkdir",
     src |-> Inode(content, "src"),
     dir |-> [dst |-> dst, tmp |-> tmp],
     prior |-> dst,
     fallback_copy |-> fallback_copy,
     errno |-> "",
     written |-> -1]

AtomicInit ==
    /\ NoRun
    /\ cache = {}
    /\ hIn = <<>> /\ hOut = <<>> /\ log = <<>> /\ asked = <<>>
    /\ sIn = <<>> /\ sOut = <<>>
    /\ largs = <<>> /\ inputs = <<>> /\ lpc = "idle" /\ rec_idx = 0
    /\ process_all = FALSE /\ ignore_all = FALSE /\ dst_path = <<>>
    /\ lout = <<>> /\ lerr = <<>> /\ library = {} /\ lexit = -1
    /\ trail = <<>>
    /\ \E c \in SrcContents, d \in PriorDst, t \in PriorTmp, f \in BOOLEAN :
           ha = HaCall(c, d, t, f)

\* What the steps of hardlink_atomic leave alone.
HaOnly ==
    UNCHANGED <<fs, cache, cfg, run, pc, tree, src_files, dst_files, idx, out,
                to_hash, fut, collected, src_hashes, dst_hashes, missing,
                emit, stdout, stderr, exit_code, hits, cur, prev, prev_cfg,
                events, argv, conn, hIn, hOut, log, asked, sIn, sOut, largs,
                inputs, lpc, rec_idx, process_all, ignore_all, dst_path, lout,
                lerr, library, lexit, trail>>

\* Line 56: dst.parent.mkdir; an error escapes.
HaMkdir(ok) ==
    /\ ha # <<>> /\ ha.pc = "mkdir"
    /\ ha' = [ha EXCEPT !.pc = IF ok THEN "unlink" ELSE "raised"]
    /\ HaOnly

\* Lines 58-60: a tmp left behind is unlinked; a failure is swallowed.
HaUnlinkTmp(ok) ==
    /\ ha # <<>> /\ ha.pc = "unlink"
    /\ ha' = [ha EXCEPT !.pc = "link",
                        !.dir.tmp = IF ok THEN None ELSE @]
    /\ HaOnly

\* Lines 61-70: os.link(src, tmp).  It fails with EEXIST if tmp is still
\* there; it may fail with any errno; on an errno of line 65 with
\* fallback_copy the copy is made, else the error escapes.
HaLink(err) ==
    /\ ha # <<>> /\ ha.pc = "link"
    /\ ha.dir.tmp # None => err # ""
    /\ ha' = IF err = ""
             THEN [ha EXCEPT !.pc = "replace", !.dir.tmp = ha.src]
             ELSE [ha EXCEPT !.errno = err,
                             !.pc = IF MayCopy(ha.fallback_copy, err)
                                    THEN "copy" ELSE "raised"]
    /\ HaOnly

\* Line 68: shutil.copy2 opens its target for writing, then writes the
\* bytes of the source, one write per byte here.
HaCopy ==
    /\ ha # <<>> /\ ha.pc = "copy"
    /\ IF ha.written = -1
       THEN ha' = [ha EXCEPT !.written = 0,
                             !.dir[CopyTarget] =
                                 IF @ = None THEN Inode(<<>>, "copy")
                                 ELSE Inode(<<>>, @.inode)]
       ELSE IF ha.written < Len(ha.src.content)
       THEN ha' = [ha EXCEPT !.written = @ + 1,
                             !.dir[CopyTarget].content =
                                 Append(@, ha.src.content[ha.written + 1])]
       ELSE ha' = [ha EXCEPT !.pc = "replace"]
    /\ HaOnly

\* shutil.copy2 fails before or between two writes: the error escapes.
HaCopyFail ==
    /\ ha # <<>> /\ ha.pc = "copy"
    /\ ha.written < Len(ha.src.content)
    /\ ha' = [ha EXCEPT !.pc = "raised"]
    /\ HaOnly

\* Line 71: os.replace(tmp, dst) renames tmp to dst in one step, or fails
\* and leaves both.
HaReplace(ok) ==
    /\ ha # <<>> /\ ha.pc = "replace"
    /\ ha' = IF ok /\ ha.dir.tmp # None
             THEN [ha EXCEPT !.pc = "returned",
                             !.dir = [dst |-> ha.dir.tmp, tmp |-> None]]
             ELSE [ha EXCEPT !.pc = "raised"]
    /\ HaOnly

AtomicNext ==
    \/ \E ok \in BOOLEAN : HaMkdir(ok)
    \/ \E ok \in BOOLEAN : HaUnlinkTmp(ok)
    \/ \E err \in Errnos \cup {""} : HaLink(err)
    \/ HaCopy
    \/ HaCopyFail
    \/ \E ok \in BOOLEAN : HaReplace(ok)

SpecAtomic == AtomicInit /\ [][AtomicNext]_vars

\* ==================================================== link.py: the records
\* How many records the linker reads at most, and how many answers that are
\* no choice the user gives in one run at most.
MaxRecords == 2
MaxRetries == 1

\* How many records of one run come to the manual entry at most.
MaxManual == 2

\* What log writes to standard error, what read_choice_from_tty writes
\* before it reads, and what json_out writes to standard output, each for
\* the record of number i.
LogLine(i) == [kind |-> "log", idx |-> i]
Prompt(i) == [kind |-> "prompt", idx |-> i]
Result(i, ok, action) ==
    [kind |-> "result", idx |-> i, ok |-> ok, action |-> action]

\* read_choice_from_tty: with /dev/tty the prompt goes to standard error
\* (line 35); without, input(prompt) writes it to standard output (line 39).
\* n prompts in a row, on each stream.
PromptsErr(tty, i, n) == IF tty THEN [j \in 1 .. n |-> Prompt(i)] ELSE <<>>
PromptsOut(tty, i, n) == IF tty THEN <<>> ELSE [j \in 1 .. n |-> Prompt(i)]

\* What the user may type at the prompts: at "Choice", at "Use FileBot AMC",
\* at "(m)ovie or (t)v", and at the prompts of manual_movie and manual_tv.
\* An end of file reads as the empty answer (lines 40-41).
ChoiceAnswers ==
    {<<"y">>, <<"n">>, <<" ", "A">>, <<"i">>, <<"q">>, <<"p">>, <<>>, <<"x">>}
ConfirmAnswers == {<<"y">>, <<"y", "e", "s">>, <<"n">>, <<>>}
KindAnswers == {<<>>, <<"m">>, <<"T">>}
TitleAnswers == {<<>>, <<" ", "T">>}
YearAnswers == {<<"1", "9", "9", "9">>, <<"9", "9">>}
SeasonAnswers == {<<"1">>, <<"x">>}
EpisodeAnswers == {<<"1", "2">>}
IdAnswers == {<<>>, <<"4", "2">>}

\* The choices of line 49.
Choices == {<<"y">>, <<"n">>, <<"a">>, <<"i">>, <<"q">>, <<"p">>}

\* Line 48: what prompt_work_on_file makes of one answer.
Chosen(raw) == LowerStr(Strip(Strip(raw)))

\* re.fullmatch(r"\d+", s) and s.isdigit() on the strings of the model.
AllDigits(s) == s # <<>> /\ \A i \in DOMAIN s : IsDigit(s[i])

\* format(n, "02d"): at least two decimal digits.
RECURSIVE ToDecimal(_)
ToDecimal(n) ==
    IF n < 10 THEN <<Digits[n + 1]>>
    ELSE Append(ToDecimal(n \div 10), Digits[(n % 10) + 1])
Pad2(n) == IF n < 10 THEN <<"0">> \o ToDecimal(n) ELSE ToDecimal(n)

\* src.suffix of the records.
Suffix == <<".", "m", "k", "v">>

\* manual_movie, lines 155-170: the path under Movies, or None; title, year
\* and tmdb are the answers as read_choice_from_tty returns them, stripped.
manual_movie(title, year, tmdb) ==
    IF title = <<>> THEN None
    ELSE IF ~(Len(year) = 4 /\ AllDigits(year)) THEN None
    ELSE LET tmdb_val == IF AllDigits(tmdb)
                         THEN <<"t", "m", "d", "b", "-">> \o tmdb
                         ELSE <<"t", "m", "d", "b", "-", "u", "n", "k", "n",
                                "o", "w", "n">>
             folder == title \o <<" ", "(">> \o year
                           \o <<")", " ", "-", " ", "{">> \o tmdb_val \o <<"}">>
             dst_name == title \o <<" ", "(">> \o year \o <<")">> \o Suffix
         IN  <<"Movies", folder, dst_name>>

\* How many prompts manual_movie writes, and how many lines it logs.
MoviePrompts(title, year) ==
    IF title = <<>> THEN 1
    ELSE IF ~(Len(year) = 4 /\ AllDigits(year)) THEN 2 ELSE 3

\* manual_tv, were the numbers of the season and of the episode written as
\* they were typed.
manual_tv_as_typed(series, sn, en, tmdb) ==
    IF series = <<>> THEN None
    ELSE IF ~(AllDigits(sn) /\ AllDigits(en)) THEN None
    ELSE LET tmdb_tag == IF AllDigits(tmdb)
                         THEN <<" ", "-", " ", "{", "t", "m", "d", "b", "-">>
                                  \o tmdb \o <<"}">>
                         ELSE <<>>
             season == <<"S", "e", "a", "s", "o", "n", " ">> \o sn
             dst_name == series \o <<" ", "-", " ", "s">> \o sn
                             \o <<"e">> \o en \o Suffix
         IN  <<"TV Shows", series \o tmdb_tag, season, dst_name>>

\* manual_tv, lines 172-187: the path under TV Shows, or None.
manual_tv(series, sn, en, tmdb) ==
    IF series = <<>> THEN None
    ELSE IF ~(AllDigits(sn) /\ AllDigits(en)) THEN None
    ELSE LET tmdb_tag == IF AllDigits(tmdb)
                         THEN <<" ", "-", " ", "{", "t", "m", "d", "b", "-">>
                                  \o tmdb \o <<"}">>
                         ELSE <<>>
             season == <<"S", "e", "a", "s", "o", "n", " ">>
                           \o Pad2(Decimal(sn))
             dst_name == series \o <<" ", "-", " ", "s">> \o Pad2(Decimal(sn))
                             \o <<"e">> \o Pad2(Decimal(en)) \o Suffix
         IN  <<"TV Shows", series \o tmdb_tag, season, dst_name>>

TvPrompts(series, sn, en) ==
    IF series = <<>> THEN 1
    ELSE IF ~(AllDigits(sn) /\ AllDigits(en)) THEN 3 ELSE 4

\* A file created under the library root: its path, the record whose source
\* it comes from and how it was made ("link", "copy", or "filebot").
Made(dst, i, how) == [dst |-> dst, src |-> i, how |-> how]

\* What main did and what the user answered, for the record of number i.
Did(i, ev, val) == [idx |-> i, ev |-> ev, val |-> val]

\* PreflightForgets is Preflight, were ignore_all not looked at.
PreflightForgets(interactive, ignoring, processing) ==
    IF interactive /\ ~processing THEN "prompt" ELSE "amc"

\* Lines 246-251: what main does with a record whose source is there.
Preflight(interactive, ignoring, processing) ==
    IF interactive /\ ignoring THEN "ignored"
    ELSE IF interactive /\ ~processing THEN "prompt"
    ELSE "amc"

\* DispatchQuitSkips is Dispatch, were 'q' to skip the record only.
DispatchQuitSkips(ch) ==
    CASE ch = <<"i">> -> [action |-> "ignored-all", goto |-> "continue",
                          ignoring |-> TRUE, processing |-> FALSE]
      [] ch \in {<<"n">>, <<"q">>} ->
                         [action |-> "skipped-by-user", goto |-> "continue",
                          ignoring |-> FALSE, processing |-> FALSE]
      [] ch = <<"a">> -> [action |-> "", goto |-> "amc",
                          ignoring |-> FALSE, processing |-> TRUE]
      [] OTHER -> [action |-> "", goto |-> "amc",
                   ignoring |-> FALSE, processing |-> FALSE]

\* DispatchIgnoreOnce is Dispatch, were 'i' to ignore the record only.
DispatchIgnoreOnce(ch) ==
    CASE ch = <<"q">> -> [action |-> "aborted-by-user", goto |-> "return",
                          ignoring |-> FALSE, processing |-> FALSE]
      [] ch = <<"i">> -> [action |-> "ignored-all", goto |-> "continue",
                          ignoring |-> FALSE, processing |-> FALSE]
      [] ch = <<"n">> -> [action |-> "skipped-by-user", goto |-> "continue",
                          ignoring |-> FALSE, processing |-> FALSE]
      [] ch = <<"a">> -> [action |-> "", goto |-> "amc",
                          ignoring |-> FALSE, processing |-> TRUE]
      [] OTHER -> [action |-> "", goto |-> "amc",
                   ignoring |-> FALSE, processing |-> FALSE]

\* Lines 256-271: what main does with the choice ch: the result it writes,
\* where it goes on, and whether it sets ignore_all or process_all.  Any
\* choice that is none of q, i, n, a falls through to the classifier.
Dispatch(ch) ==
    CASE ch = <<"q">> -> [action |-> "aborted-by-user", goto |-> "return",
                          ignoring |-> FALSE, processing |-> FALSE]
      [] ch = <<"i">> -> [action |-> "ignored-all", goto |-> "continue",
                          ignoring |-> TRUE, processing |-> FALSE]
      [] ch = <<"n">> -> [action |-> "skipped-by-user", goto |-> "continue",
                          ignoring |-> FALSE, processing |-> FALSE]
      [] ch = <<"a">> -> [action |-> "", goto |-> "amc",
                          ignoring |-> FALSE, processing |-> TRUE]
      [] OTHER -> [action |-> "", goto |-> "amc",
                   ignoring |-> FALSE, processing |-> FALSE]

\* The arguments of the linker: whether the three roots are directories,
\* --interactive, --fallback-copy, and whether /dev/tty can be opened.
LinkerArgs ==
    {a \in [roots_ok : BOOLEAN, interactive : BOOLEAN,
            fallback_copy : BOOLEAN, tty : BOOLEAN] :
        /\ ~a.roots_ok => (a.interactive /\ a.tty /\ ~a.fallback_copy)
        /\ (~a.interactive \/ a.fallback_copy) => a.tty
        /\ ~a.interactive => ~a.fallback_copy}

\* What the library may hold when the linker starts: nothing, or a movie
\* of an earlier run.
Shelves ==
    {{}, {Made(manual_movie(<<"T">>, <<"1", "9", "9", "9">>, <<>>), 0, "link")}}

\* The records read: of each, whether its src is a regular file; at most
\* one source is missing.
Records ==
    {q \in UNION {[1 .. n -> [is_file : BOOLEAN]] : n \in 0 .. MaxRecords} :
        \A i, j \in DOMAIN q : (~q[i].is_file /\ ~q[j].is_file) => i = j}

LinkerInit ==
    /\ NoRun
    /\ cache = {}
    /\ hIn = <<>> /\ hOut = <<>> /\ log = <<>> /\ asked = <<>>
    /\ sIn = <<>> /\ sOut = <<>>
    /\ ha = <<>>
    /\ largs \in LinkerArgs
    /\ inputs \in Records
    /\ lpc = "main" /\ rec_idx = 0
    /\ process_all = FALSE /\ ignore_all = FALSE /\ dst_path = None
    /\ lout = <<>> /\ lerr = <<>> /\ lexit = -1
    /\ library \in Shelves
    /\ library # {} => (largs.interactive /\ largs.tty /\ ~largs.fallback_copy)
    /\ trail = <<>>

\* What the steps of the linker leave alone.
LinkerOnly ==
    UNCHANGED <<fs, cache, cfg, run, pc, tree, src_files, dst_files, idx, out,
                to_hash, fut, collected, src_hashes, dst_hashes, missing,
                emit, stdout, stderr, exit_code, hits, cur, prev, prev_cfg,
                events, argv, conn, hIn, hOut, log, asked, sIn, sOut, largs,
                inputs, ha>>

\* Lines 219-236: the roots are checked and the records are read.
LinkerMain ==
    /\ lpc = "main"
    /\ IF ~largs.roots_ok
       THEN /\ lerr' = Append(lerr, LogLine(0))
            /\ lexit' = 2 /\ lpc' = "done"
            /\ UNCHANGED rec_idx
       ELSE IF inputs = <<>>
       THEN /\ lexit' = 0 /\ lpc' = "done"
            /\ UNCHANGED <<lerr, rec_idx>>
       ELSE /\ rec_idx' = 1 /\ lpc' = "record"
            /\ UNCHANGED <<lerr, lexit>>
    /\ UNCHANGED <<process_all, ignore_all, dst_path, lout, library, trail>>
    /\ LinkerOnly

\* Lines 236-251: the banner of the next record, the result of a record
\* whose source is missing or that is ignored, or the menu of
\* prompt_work_on_file (line 44).
NextRecord ==
    /\ lpc = "record" /\ rec_idx <= Len(inputs)
    /\ LET i == rec_idx
           todo == Preflight(largs.interactive, ignore_all, process_all)
       IN  IF ~inputs[i].is_file
           THEN /\ lout' = Append(lout, Result(i, FALSE, "missing-src"))
                /\ lerr' = lerr \o <<LogLine(i), LogLine(i)>>
                /\ rec_idx' = i + 1
                /\ UNCHANGED lpc
           ELSE IF todo = "ignored"
           THEN /\ lout' = Append(lout, Result(i, FALSE, "ignored-all"))
                /\ lerr' = lerr \o <<LogLine(i), LogLine(i)>>
                /\ rec_idx' = i + 1
                /\ UNCHANGED lpc
           ELSE IF todo = "prompt"
           THEN /\ lerr' = lerr \o <<LogLine(i), LogLine(i)>>
                /\ lpc' = "prompt"
                /\ UNCHANGED <<lout, rec_idx>>
           ELSE /\ lerr' = Append(lerr, LogLine(i))
                /\ lpc' = "amc"
                /\ UNCHANGED <<lout, rec_idx>>
    /\ UNCHANGED <<process_all, ignore_all, dst_path, library, lexit, trail>>
    /\ LinkerOnly

\* Line 350: the records are exhausted.
Return0 ==
    /\ lpc = "record" /\ rec_idx > Len(inputs)
    /\ lexit' = 0 /\ lpc' = "done"
    /\ UNCHANGED <<rec_idx, process_all, ignore_all, dst_path, lout, lerr,
                   library, trail>>
    /\ LinkerOnly

\* How many answers that are no choice the user has given.
Retries == Cardinality({j \in DOMAIN trail : trail[j].ev = "retry"})

\* Lines 45-51 and 252-271: one answer to "Choice (y/n/a/i/q/p): ".  An
\* answer that is no choice is asked again; the empty answer is 'n'; a
\* first 'p' logs the path and calls prompt_work_on_file once more; then the
\* choice is dispatched.
Choice(raw) ==
    /\ lpc \in {"prompt", "again"}
    /\ LET i == rec_idx
           c == Chosen(raw)
           ch == IF c = <<>> THEN <<"n">> ELSE c
           d == Dispatch(ch)
           asked_out == lout \o PromptsOut(largs.tty, i, 1)
           asked_err == lerr \o PromptsErr(largs.tty, i, 1)
       IN  IF c \notin Choices /\ c # <<>>
           THEN /\ Retries < MaxRetries
                /\ trail' = Append(trail, Did(i, "retry", c))
                /\ lout' = asked_out /\ lerr' = asked_err
                /\ UNCHANGED <<lpc, rec_idx, process_all, ignore_all, lexit>>
           ELSE IF lpc = "prompt" /\ ch = <<"p">>
           THEN /\ trail' = Append(trail, Did(i, "answer", ch))
                /\ lout' = asked_out
                /\ lerr' = asked_err \o <<LogLine(i), LogLine(i)>>
                /\ lpc' = "again"
                /\ UNCHANGED <<rec_idx, process_all, ignore_all, lexit>>
           ELSE /\ trail' = Append(trail, Did(i, "answer", ch))
                /\ ignore_all' = (ignore_all \/ d.ignoring)
                /\ process_all' = (process_all \/ d.processing)
                /\ IF d.goto = "amc"
                   THEN /\ lout' = asked_out /\ lerr' = asked_err
                        /\ lpc' = "amc"
                        /\ UNCHANGED <<rec_idx, lexit>>
                   ELSE /\ lout' = Append(asked_out, Result(i, FALSE, d.action))
                        /\ lerr' = Append(asked_err, LogLine(i))
                        /\ IF d.goto = "return"
                           THEN /\ lexit' = 130 /\ lpc' = "done"
                                /\ UNCHANGED rec_idx
                           ELSE /\ rec_idx' = i + 1 /\ lpc' = "record"
                                /\ UNCHANGED lexit
    /\ UNCHANGED <<dst_path, library>>
    /\ LinkerOnly

\* Lines 308-319: FileBot is run with --action hardlink; rc_link = 0 or not.
\* What the variables are after it, given what was written before.
FileBotLinks(o, e, done, linked) ==
    /\ lout' = Append(o, Result(rec_idx, linked, "filebot-hardlink"))
    /\ lerr' = Append(e, LogLine(rec_idx))
    /\ library' = IF linked
                  THEN library \cup {Made(<<"amc">>, rec_idx, "filebot")}
                  ELSE library
    /\ trail' = done
    /\ rec_idx' = rec_idx + 1 /\ lpc' = "record"

\* Another record may come to the manual entry.
ManualLeft ==
    Cardinality({j \in DOMAIN trail : trail[j].ev = "manual"}) < MaxManual

\* Lines 274-306 and 322: FileBot is run with --action test; it does not
\* recognise the item, or proposes no destination, or proposes one.  A
\* proposal is accepted at once when not interactive.
Classify(res, linked) ==
    /\ lpc = "amc"
    /\ LET i == rec_idx
           done == Append(trail, Did(i, "amc", res = "dests"))
       IN  IF res = "dests"
           THEN IF largs.interactive
                THEN /\ lerr' = lerr \o <<LogLine(i), LogLine(i)>>
                     /\ lpc' = "confirm"
                     /\ trail' = done
                     /\ UNCHANGED <<lout, library, rec_idx>>
                ELSE FileBotLinks(lout, lerr \o <<LogLine(i), LogLine(i)>>,
                                  done, linked)
           ELSE /\ ManualLeft
                /\ lerr' = lerr \o <<LogLine(i), LogLine(i)>>
                /\ lpc' = "manual"
                /\ trail' = done
                /\ UNCHANGED <<lout, library, rec_idx>>
    /\ UNCHANGED <<process_all, ignore_all, dst_path, lexit>>
    /\ LinkerOnly

\* Lines 303-322: the answer to "Use FileBot AMC to hardlink? (y/N): ".
ConfirmAmc(raw, linked) ==
    /\ lpc = "confirm"
    /\ LET i == rec_idx
           r == Strip(raw)
           ch == LowerStr(IF r = <<>> THEN <<"n">> ELSE r)
           accept_amc == ch \in {<<"y">>, <<"y", "e", "s">>}
           asked_out == lout \o PromptsOut(largs.tty, i, 1)
           asked_err == lerr \o PromptsErr(largs.tty, i, 1)
           done == Append(trail, Did(i, "confirm", accept_amc))
       IN  IF accept_amc
           THEN FileBotLinks(asked_out, asked_err, done, linked)
           ELSE /\ ManualLeft
                /\ lout' = asked_out
                /\ lerr' = Append(asked_err, LogLine(i))
                /\ lpc' = "manual"
                /\ trail' = done
                /\ UNCHANGED <<library, rec_idx>>
    /\ UNCHANGED <<process_all, ignore_all, dst_path, lexit>>
    /\ LinkerOnly

\* Line 323: what main makes of the answer to "(m)ovie or (t)v".
Kind(raw) ==
    LET mt == LowerStr(Strip(Strip(raw)))
    IN  IF mt = <<>> THEN <<"m">> ELSE mt

\* Lines 330-338: after n prompts and as many lines logged by the manual
\* entry, the path it gave is None, or exists already, or is to be linked.
ManualDone(path, n, what) ==
    LET i == rec_idx
        asked_out == lout \o PromptsOut(largs.tty, i, n + 1)
        asked_err == lerr \o <<LogLine(i)>> \o PromptsErr(largs.tty, i, n + 1)
                          \o <<LogLine(i)>>
    IN  /\ trail' = Append(trail, Did(i, "manual",
                                      IF path = None
                                      THEN [kind |-> "aborted"] ELSE what))
        /\ IF path = None
           THEN /\ lout' = Append(asked_out, Result(i, FALSE, "manual-aborted"))
                /\ lerr' = Append(asked_err, LogLine(i))
                /\ rec_idx' = i + 1 /\ lpc' = "record"
                /\ UNCHANGED dst_path
           ELSE IF \E m \in library : m.dst = path
           THEN /\ lout' = Append(asked_out, Result(i, TRUE, "exists"))
                /\ lerr' = Append(asked_err, LogLine(i))
                /\ rec_idx' = i + 1 /\ lpc' = "record"
                /\ UNCHANGED dst_path
           ELSE /\ lout' = asked_out /\ lerr' = asked_err
                /\ dst_path' = path
                /\ lpc' = "link"
                /\ UNCHANGED rec_idx
        /\ UNCHANGED <<process_all, ignore_all, library, lexit>>
        /\ LinkerOnly

\* Lines 323-325: the item is a movie, and manual_movie asks for it.
ManualMovie(mt, title, year, tmdb) ==
    /\ lpc = "manual"
    /\ StartsWith(Kind(mt), <<"m">>)
    /\ ManualDone(manual_movie(Strip(Strip(title)), Strip(Strip(year)),
                               Strip(Strip(tmdb))),
                  MoviePrompts(Strip(Strip(title)), Strip(Strip(year))),
                  [kind |-> "movie", title |-> Strip(title),
                   year |-> Strip(year), tmdb |-> Strip(tmdb)])

\* Lines 326-328: the item is an episode, and manual_tv asks for it.
ManualTv(mt, series, sn, en, tmdb) ==
    /\ lpc = "manual"
    /\ ~StartsWith(Kind(mt), <<"m">>)
    /\ ManualDone(manual_tv(Strip(Strip(series)), Strip(sn), Strip(en),
                            Strip(tmdb)),
                  TvPrompts(Strip(Strip(series)), Strip(sn), Strip(en)),
                  [kind |-> "tv", series |-> Strip(series), sn |-> Strip(sn),
                   en |-> Strip(en), tmdb |-> Strip(tmdb)])

\* Lines 340-348: hardlink_atomic links, or copies, or raises; the record
\* has no subtitles, so link_subtitles does nothing.
HardLink(err, copied) ==
    /\ lpc = "link"
    /\ LET i == rec_idx
           how == IF err = "" THEN "link"
                  ELSE IF MayCopy(largs.fallback_copy, err) /\ copied
                  THEN "copy" ELSE "raise"
       IN  /\ trail' = Append(trail, Did(i, "link", how))
           /\ IF how = "raise"
              THEN /\ lout' = Append(lout, Result(i, FALSE, "failed"))
                   /\ UNCHANGED library
              ELSE /\ lout' = Append(lout, Result(i, TRUE, "linked"))
                   /\ library' = library \cup {Made(dst_path, i, how)}
           /\ lerr' = Append(lerr, LogLine(i))
           /\ rec_idx' = i + 1 /\ lpc' = "record"
           /\ dst_path' = None
    /\ UNCHANGED <<process_all, ignore_all, lexit>>
    /\ LinkerOnly

LinkerNext ==
    \/ LinkerMain
    \/ NextRecord
    \/ Return0
    \/ \E raw \in ChoiceAnswers : Choice(raw)
    \/ \E res \in {"unrecognized", "nodests", "dests"}, linked \in BOOLEAN :
           Classify(res, linked)
    \/ \E raw \in ConfirmAnswers, linked \in BOOLEAN : ConfirmAmc(raw, linked)
    \/ \E mt \in KindAnswers, title \in TitleAnswers, year \in YearAnswers,
          tmdb \in IdAnswers : ManualMovie(mt, title, year, tmdb)
    \/ \E mt \in KindAnswers, series \in TitleAnswers, sn \in SeasonAnswers,
          en \in EpisodeAnswers, tmdb \in IdAnswers :
           ManualTv(mt, series, sn, en, tmdb)
    \/ \E err \in Errnos \cup {""}, copied \in BOOLEAN : HardLink(err, copied)

SpecLinker == LinkerInit /\ [][LinkerNext]_vars

\* ================================================================ claims
Range(q) == {q[i] : i \in DOMAIN q}
PathsOf(files) == {files[i].path : i \in DOMAIN files}
ValuePaths(d) == {d[i].v.path : i \in DOMAIN d}

\* main has built the missing list.
AfterDiff == pc \in {"emit", "done"} \/ (pc = "crashed" /\ missing # <<>>)

\* No file the scans kept has vanished or lost its read permission.
Stable == \A p \in ScannedPaths : CanRead(Resolve(fs, p))

\* C1: the missing list holds the record of a source digest exactly when the
\* destination mapping lacks that digest, once per such digest, whatever the
\* names, paths and sizes of the files.
C1_SetDifference ==
    AfterDiff =>
        /\ \A i \in DOMAIN src_hashes :
               (src_hashes[i].k \notin Keys(dst_hashes))
                   <=> (src_hashes[i].v.path \in Range(missing))
        /\ Range(missing) \subseteq ValuePaths(src_hashes)
        /\ Len(missing)
               = Cardinality({h \in Keys(src_hashes) : h \notin Keys(dst_hashes)})

\* A run of two source digests, one the destination has and one it lacks.
C1_Witness ==
    /\ pc = "done"
    /\ Len(src_hashes) = 2
    /\ Len(missing) = 1
    /\ Len(stdout) = 1
    /\ stdout[1].src = missing[1]

\* Every file the source scan kept has its bytes in a file the destination
\* scan kept.
SameContent ==
    \A p \in PathsOf(src_files) :
        \E q \in PathsOf(dst_files) : fs[q].content = fs[p].content

\* C2: when every source file's bytes are the bytes of a destination file,
\* under whatever name, and the trees stay as they are while the run lasts,
\* the run reports nothing missing.
C2_IdenticalContent ==
    (AfterDiff /\ Stable /\ SameContent) => (missing = <<>> /\ pc = "done")

\* Two source files whose bytes the one destination file has, one of them
\* under another name.
C2_Witness ==
    /\ pc = "done"
    /\ Stable
    /\ SameContent
    /\ Len(src_files) = 2
    /\ Len(dst_files) = 1
    /\ missing = <<>>

\* What of a file's bytes reaches the hash object: all of them, or the first
\* and the last chunk.
Sample(content) ==
    IF cfg.method = "full" \/ Len(content) <= ChunkSize * 2
    THEN [whole |-> TRUE, first |-> content, last |-> <<>>]
    ELSE [whole |-> FALSE,
          first |-> ReadAt(content, 0, ChunkSize),
          last |-> ReadAt(content, Len(content) - ChunkSize, ChunkSize)]

\* C3, as claimed: a source file whose bytes differ from the bytes of every
\* destination file has its bytes reported as missing.
C3_AsClaimed ==
    (AfterDiff /\ Stable) =>
        \A p \in PathsOf(src_files) :
            (\A q \in PathsOf(dst_files) : fs[q].content # fs[p].content)
                => \E m \in Range(missing) : fs[m].content = fs[p].content

\* C3, amended: a source file whose hashed bytes (all of them under the full
\* method or up to twice the chunk size, else the first and the last chunk)
\* differ from those of every destination file is reported as missing, by its
\* own record or by that of a source file with the same digest, also when a
\* destination file has its name; and whatever fails, a fingerprinted source
\* file whose digest no fingerprinted destination file has is reported so.
C3_DigestDecides ==
    AfterDiff =>
        /\ Stable =>
               \A p \in PathsOf(src_files) :
                   (\A q \in PathsOf(dst_files) :
                        Sample(fs[q].content) # Sample(fs[p].content))
                       => \E m \in Range(missing) :
                              Sample(fs[m].content) = Sample(fs[p].content)
        /\ \A p \in PathsOf(src_files) :
               (/\ cur[p].digest # None
                /\ \A q \in PathsOf(dst_files) : cur[q].digest # cur[p].digest)
                   => \E m \in Range(missing) : cur[m].digest = cur[p].digest

\* The partial method: a source file is reported although the destination has
\* a file of its name, whose last byte is another.
C3_Witness ==
    /\ pc = "done"
    /\ Stable
    /\ cfg.method = "partial"
    /\ SrcA \in PathsOf(src_files)
    /\ DstA \in PathsOf(dst_files)
    /\ fs[SrcA].content # fs[DstA].content
    /\ SrcA \in Range(missing)

\* C4: a file below the minimum size is in no scan result, in no fingerprint
\* mapping, in no list of files to hash, in no missing list and in no output
\* record, in either tree.
C4_SmallFilesIgnored ==
    \A p \in Paths :
        (fs[p].exists /\ Len(fs[p].content) < MinSize) =>
            /\ p \notin PathsOf(src_files) \cup PathsOf(dst_files)
            /\ p \notin PathsOf(to_hash)
            /\ p \notin ValuePaths(out) \cup ValuePaths(src_hashes)
                            \cup ValuePaths(dst_hashes)
            /\ p \notin Range(missing)
            /\ \A i \in DOMAIN stdout : stdout[i].src # p

\* A run ends with a record written while each tree holds a file below the
\* minimum size.
C4_Witness ==
    /\ pc = "done"
    /\ fs[SrcA].exists /\ Len(fs[SrcA].content) < MinSize
    /\ fs[DstA].exists /\ Len(fs[DstA].content) < MinSize
    /\ missing # <<>>
    /\ Len(stdout) = Len(missing)

\* File p was fingerprinted by the previous run, which found or stored its
\* digest in the cache, and is unmodified in this one.
C5_Unmodified(p) ==
    /\ run > 1
    /\ cfg.use_cache /\ prev_cfg.use_cache
    /\ cfg.method = prev_cfg.method
    /\ prev[p].digest # None
    /\ prev[p].stored
    /\ cur[p].stat # None
    /\ cur[p].stat = prev[p].stat

\* C5: a file that one run fingerprinted and the next run finds with the
\* same mtime and size, both runs with the cache and with the same method,
\* gets the same digest in the later run, which does not read its content.
C5_CacheRoundTrip ==
    \A p \in Paths :
        C5_Unmodified(p) =>
            /\ cur[p].digest = prev[p].digest
            /\ ~cur[p].read
            /\ p \notin PathsOf(to_hash)

\* A second run ends that served from the cache a file the first run read.
C5_Witness ==
    /\ pc = "done"
    /\ C5_Unmodified(SrcA)
    /\ prev[SrcA].read
    /\ ~cur[SrcA].read
    /\ cur[SrcA].digest = prev[SrcA].digest

\* The stores that preceded the lookup kept in asked.
Before == SubSeq(log, 1, asked.at)

\* The last of the stores in q that satisfies Test.
LastStore(q, Test(_)) ==
    LET found == {i \in DOMAIN q : Test(q[i])}
    IN  IF found = {} THEN 0
        ELSE CHOOSE i \in found : \A j \in found : j <= i

C8_SameEnds ==
    /\ Len(hIn.a) > 2 * hIn.chunk_size
    /\ Len(hIn.b) > 2 * hIn.chunk_size
    /\ SubSeq(hIn.a, 1, hIn.chunk_size) = SubSeq(hIn.b, 1, hIn.chunk_size)
    /\ SubSeq(hIn.a, Len(hIn.a) - hIn.chunk_size + 1, Len(hIn.a))
           = SubSeq(hIn.b, Len(hIn.b) - hIn.chunk_size + 1, Len(hIn.b))

\* C8: under the partial method, two files larger than twice the chunk size
\* that agree on their first and on their last chunk get the same digest,
\* whatever lies between and however long they are; and a file hashed again
\* gets the digest it got.
C8_PartialDependsOnEnds ==
    /\ \A i \in DOMAIN hOut :
           (hOut[i].method = "partial" /\ C8_SameEnds) => hOut[i].a = hOut[i].b
    /\ \A i, j \in DOMAIN hOut :
           hOut[i].method = hOut[j].method =>
               hOut[i].a = hOut[j].a /\ hOut[i].b = hOut[j].b

\* Two files of different lengths and different middle bytes, hashed twice
\* with the partial method.
C8_Witness ==
    /\ Len(hOut) = 2
    /\ hOut[1].method = "partial" /\ hOut[2].method = "partial"
    /\ C8_SameEnds
    /\ Len(hIn.a) # Len(hIn.b)
    /\ hOut[1].a = hOut[2].b

\* hash_map has returned to main, which has not yet gone on.
AtReturn == pc \in {"call_dst", "diff"}
Returned == IF pc = "call_dst" THEN src_hashes ELSE dst_hashes
ReturnedFiles == IF pc = "call_dst" THEN src_files ELSE dst_files

\* The writes to out of the call that returned, in their order: the files
\* served from the cache, then the futures that gave a digest, as yielded.
Writes ==
    LET ok == SelectSeq(collected, LAMBDA n : fut[n].st = "ok")
    IN  hits \o [n \in DOMAIN ok |-> [fi |-> to_hash[ok[n]],
                                       digest |-> fut[ok[n]].digest]]

\* C9: in whatever order the workers end, the mapping hash_map returns has
\* as keys exactly the digests served from the cache or computed by a worker,
\* each once, each with the file that was written last under it; no future
\* is left unfinished and no computed digest is lost.
C9_EveryDigestOnce ==
    AtReturn =>
        /\ Keys(Returned) = {Writes[n].digest : n \in DOMAIN Writes}
        /\ \A i, j \in DOMAIN Returned :
               Returned[i].k = Returned[j].k => i = j
        /\ \A i \in DOMAIN Returned :
               LET k == Returned[i].k
               IN  Returned[i].v
                       = Writes[LastStore(Writes, LAMBDA e : e.digest = k)].fi
        /\ \A n \in DOMAIN fut :
               /\ fut[n].st \in {"ok", "err"}
               /\ fut[n].st = "ok" => fut[n].digest \in Keys(Returned)

\* Two source files of one digest, the second hashed and yielded first: the
\* mapping holds the first file, written last.
C9_Witness ==
    /\ pc = "call_dst"
    /\ Len(to_hash) = 2
    /\ collected = <<2, 1>>
    /\ fut[1].st = "ok" /\ fut[2].st = "ok"
    /\ fut[1].digest = fut[2].digest
    /\ Len(src_hashes) = 1
    /\ src_hashes[1].v = to_hash[1]

\* C10: when hash_map returns, a file of the batch whose stat or read failed
\* is in no entry of the mapping and has its diagnostic on standard error,
\* and every other file of the batch has its digest in the mapping.
C10_DroppedAndReported ==
    AtReturn =>
        \A p \in PathsOf(ReturnedFiles) :
            IF cur[p].digest = None
            THEN /\ p \notin ValuePaths(Returned)
                 /\ HashError(p) \in Range(stderr)
            ELSE cur[p].digest \in Keys(Returned)

\* ------------------------------------------------------------ C11 to C14
\* The command line is valid: the size parses and both roots are directories.
ArgsValid == parse_size(argv.min_size).ok /\ PathsOk(argv)

\* An operation on the cache has failed in this run.
CacheFailed == \E o \in conn : o.op \in {"open failed", "get failed", "set failed"}

\* C11: a run with valid arguments in which a cache operation failed (the
\* open, a lookup or a store), and no file fault or interrupt occurred, still
\* ends normally with exit status 0.
C11_CacheFailureNotFatal ==
    (Ended /\ ArgsValid /\ CacheFailed /\ Stable /\ pc # "interrupted")
        => (pc = "done" /\ exit_code = 0)

\* The command line has a usage error, in the words of the claim.
BadRoots == \E r \in {argv.src, argv.dst} : ~Exists(r) \/ ~IsDir(r)
Malformed == ~parse_size(argv.min_size).ok

\* C12: a run whose source or destination is missing or no directory, or
\* whose minimum size is malformed, ends with a nonzero exit status and a
\* message on standard error, and has done nothing else: no use of the cache,
\* no row written, no tree scanned, no file statted or read by the hashing,
\* nothing on standard output.
C12_UsageErrorNoWork ==
    ((BadRoots \/ Malformed) /\ pc # "main") =>
        /\ Ended
        /\ exit_code \notin {0, -1}
        /\ stderr # <<>>
        /\ conn = {} /\ cache = {}
        /\ src_files = <<>> /\ dst_files = <<>>
        /\ to_hash = <<>> /\ fut = <<>>
        /\ cur = Blank
        /\ stdout = <<>>

\* A run whose destination is a regular file has ended with status 2 and the
\* usage message.
C12_Witness ==
    /\ argv.dst = "afile"
    /\ pc = "usage"
    /\ exit_code = 2
    /\ stderr = <<UsageMessage>>

\* C13: a run with valid arguments, no failing cache operation and no
\* interrupt ends with exit status 0 and has written the record of every
\* missing file that still exists, whatever files vanished or became
\* unreadable after the scan.
C13_OnlyUsageErrorFails ==
    (Ended /\ ArgsValid /\ ~CacheFailed /\ pc # "interrupted") =>
        /\ pc = "done" /\ exit_code = 0
        /\ \A i \in DOMAIN missing :
               CanStat(Resolve(fs, missing[i]))
                   => \E j \in DOMAIN stdout : stdout[j].src = missing[i]

\* What may be written to standard error.
Diagnostics == {"hash error", "traceback", "usage", "interrupted"}

\* C14: in a run with --format jsonl, standard output holds JSON lines only,
\* the i-th being the line of the i-th missing file, one per missing file
\* once the run has ended normally; in every run, no line of standard output
\* is of another format than the one asked for, and standard error holds
\* diagnostics only.
C14_OutputNotCorrupted ==
    /\ cfg.format = "jsonl" =>
           /\ Len(stdout) <= Len(missing)
           /\ \A i \in DOMAIN stdout :
                  /\ stdout[i].kind = "json"
                  /\ stdout[i].src = missing[i]
           /\ pc = "done" => Len(stdout) = Len(missing)
    /\ cfg.format = "text" =>
           \A i \in DOMAIN stdout : stdout[i].kind \in {"text", "all matched"}
    /\ \A i \in DOMAIN stderr : stderr[i].kind \in Diagnostics

\* A jsonl run has ended that wrote a hash error to standard error and the
\* JSON line of a missing file to standard output.
C14_Witness ==
    /\ cfg.format = "jsonl"
    /\ pc = "done"
    /\ \E i \in DOMAIN stderr : stderr[i].kind = "hash error"
    /\ Len(stdout) = 1
    /\ stdout[1].kind = "json"

\* ------------------------------------------------------------ C18 to C20
\* C18: once the interrupt has reached main, no call of hash_file that had
\* not started is started.
C18_NoStartAfterInterrupt ==
    [][pc = "shutdown" =>
          \A i \in DOMAIN fut :
              fut'[i].st = "running" => fut[i].st = "running"]_vars

\* C19: every use of the cache's connection (open, lookup, store, close) is
\* made by the main thread, never by a thread of the pool, so that no two
\* uses overlap.
C19_CacheOpsSerialized ==
    \A o \in conn : o.thread = MainThread

\* The main thread has stored a digest while a worker was inside hash_file.
C19_Witness ==
    /\ pc = "pool"
    /\ Running # {}
    /\ ConnOp("set", MainThread) \in conn

\* The writes to out had the futures been yielded in the order of their
\* submission, and the mapping that a sequence of writes leaves.
WritesInOrder ==
    LET ok == SelectSeq([n \in DOMAIN fut |-> n], LAMBDA n : fut[n].st = "ok")
    IN  hits \o [n \in DOMAIN ok |-> [fi |-> to_hash[ok[n]],
                                       digest |-> fut[ok[n]].digest]]
MapOf(writes) ==
    {[k |-> writes[n].digest,
      v |-> writes[LastStore(writes, LAMBDA e : e.digest = writes[n].digest)].fi]
         : n \in DOMAIN writes}

\* C20, as claimed: whatever the order of completion, the mapping hash_map
\* returns is the one that completion in the order of submission leaves.
C20_AsClaimed ==
    AtReturn => Range(Returned) = MapOf(WritesInOrder)

\* C20, amended: the digests of the mapping hash_map returns, and the file
\* under a digest that one file only has, do not depend on the order of
\* completion; under a digest that several files have lies the file that
\* was written last; and the digests of the missing files are the source
\* digests that the destination lacks.
C20_KeysOrderIndependent ==
    /\ AtReturn =>
           /\ Keys(Returned) = {e.k : e \in MapOf(WritesInOrder)}
           /\ \A e \in Range(Returned) :
                  /\ e \in MapOf(Writes)
                  /\ Cardinality({n \in DOMAIN Writes : Writes[n].digest = e.k}) = 1
                         => e \in MapOf(WritesInOrder)
    /\ AfterDiff =>
           {cur[missing[i]].digest : i \in DOMAIN missing}
               = Keys(src_hashes) \ Keys(dst_hashes)

\* Two source files of one digest were yielded in the reverse order: the
\* mapping holds the first file, where completion in order leaves the second.
C20_Witness ==
    /\ pc = "call_dst"
    /\ collected = <<2, 1>>
    /\ fut[1].st = "ok" /\ fut[2].st = "ok"
    /\ fut[1].digest = fut[2].digest
    /\ Range(src_hashes) # MapOf(WritesInOrder)
    /\ Keys(src_hashes) = {e.k : e \in MapOf(WritesInOrder)}

\* ------------------------------------------------------------ C15 and C16
\* The entries in the scope of the search: those of the parent directory and,
\* if Subs is a directory, those of Subs, of the directories that can be
\* listed.
InScope ==
    (IF sIn.parent.listable THEN Range(sIn.parent.entries) ELSE {})
        \cup (IF sIn.subs.is_dir /\ sIn.subs.listable
              THEN Range(sIn.subs.entries) ELSE {})

\* The tests of the two rules on the stems, as the claims word them.
HoldsStem(stem, e) ==
    \/ Contains(LowerStr(e.stem), LowerStr(stem))
    \/ StartsWith(LowerStr(e.stem), LowerStr(stem))
SharesToken(stem, e) ==
    \E t \in Tokens(LowerStr(stem)) : t \in Tokens(LowerStr(e.stem))

\* C15: the list returned holds matches of rule 1 only, or, when no
\* subtitle in the whole scope satisfies rule 1, matches of the loosened
\* rule only.
C15_TieredMatching ==
    sOut # <<>> =>
        LET stem == sOut[1].stem
            found == Range(sOut[1].subtitles)
        IN  \/ \A r \in found : HoldsStem(stem, r)
            \/ /\ \A e \in InScope : IsSubtitle(e) => ~HoldsStem(stem, e)
               /\ \A r \in found : SharesToken(stem, r)

\* C16: every regular file with a subtitle extension, in the parent
\* directory or in Subs, of a directory that can be listed, whose stem holds
\* the stem of the video in any case of letters, is in the list returned.
C16_ContainingStemIncluded ==
    sOut # <<>> =>
        LET stem == sOut[1].stem
        IN  /\ sIn.parent.listable =>
                \A e \in Range(sIn.parent.entries) :
                    (/\ e.is_file
                     /\ LowerSuffix(e.suffix) \in SUB_EXTS
                     /\ Contains(LowerStr(e.stem), LowerStr(stem)))
                        => SubPath("parent", e) \in Range(sOut[1].subtitles)
            /\ (sIn.subs.is_dir /\ sIn.subs.listable) =>
                \A e \in Range(sIn.subs.entries) :
                    (/\ e.is_file
                     /\ LowerSuffix(e.suffix) \in SUB_EXTS
                     /\ Contains(LowerStr(e.stem), LowerStr(stem)))
                        => SubPath("Subs", e) \in Range(sOut[1].subtitles)

\* The video "A": the parent directory holds a subtitle that shares a token
\* with nothing but holds the stem inside its name, Subs holds one that
\* starts with the stem in the other case, and the list has both.
C16_Witness ==
    /\ sOut # <<>>
    /\ sOut[1].stem = <<"A">>
    /\ sOut[1].subtitles
           = <<SubPath("parent", Entry(<<"c", "a">>, ".sub", TRUE)),
               SubPath("Subs", Entry(<<"A", " ", "b", " ", "c">>, ".srt", TRUE))>>

BothMethods ==
    /\ Len(hOut) = 2
    /\ hOut[1].method # hOut[2].method

\* C23: a file no longer than twice the chunk size gets the same digest
\* from the partial method as from the full method: its whole stream, read
\* once, without markers.
C23_SmallFileSameDigest ==
    BothMethods =>
        /\ Len(hIn.a) <= 2 * hIn.chunk_size =>
               (/\ hOut[1].a = hOut[2].a
                /\ hOut[1].a = Digest(Algo, hIn.a))
        /\ Len(hIn.b) <= 2 * hIn.chunk_size =>
               (/\ hOut[1].b = hOut[2].b
                /\ hOut[1].b = Digest(Algo, hIn.b))

\* A file of exactly twice the chunk size, of two different bytes, hashed
\* with both methods.
C23_Witness ==
    /\ BothMethods
    /\ Len(hIn.a) = 2 * hIn.chunk_size
    /\ hIn.a[1] # hIn.a[Len(hIn.a)]
    /\ hOut[1].a = hOut[2].a

\* C24: with one chunk size, the stream fed to the hash object for a file
\* larger than twice the chunk size differs from the stream fed for any file
\* no larger than that, so the two digests differ.
C24_SampledNeverWhole ==
    \A i \in DOMAIN hOut :
        hOut[i].method = "partial" =>
            /\ (Len(hIn.a) > 2 * hIn.chunk_size
                    /\ Len(hIn.b) <= 2 * hIn.chunk_size) =>
                   (hOut[i].a[2] # hOut[i].b[2] /\ hOut[i].a # hOut[i].b)
            /\ (Len(hIn.b) > 2 * hIn.chunk_size
                    /\ Len(hIn.a) <= 2 * hIn.chunk_size) =>
                   (hOut[i].a[2] # hOut[i].b[2] /\ hOut[i].a # hOut[i].b)

\* A sampled file and a small file that is its first chunk followed by its
\* last chunk, hashed with the partial method.
C24_Witness ==
    /\ hOut # <<>>
    /\ hOut[1].method = "partial"
    /\ Len(hIn.a) > 2 * hIn.chunk_size
    /\ hIn.b = SubSeq(hIn.a, 1, hIn.chunk_size)
                   \o SubSeq(hIn.a, Len(hIn.a) - hIn.chunk_size + 1, Len(hIn.a))
    /\ hOut[1].a # hOut[1].b

\* -------------------------------------------------------------------- C25
\* The subtitles of a directory that satisfy rule 1, and those that satisfy
\* the loosened rule but not rule 1.
StrictIn(stem, dir) ==
    {e \in Range(dir.entries) : IsSubtitle(e) /\ HoldsStem(stem, e)}
LooseOnlyIn(stem, dir) ==
    {e \in Range(dir.entries) :
        IsSubtitle(e) /\ SharesToken(stem, e) /\ ~HoldsStem(stem, e)}
IsReturned(d, e) ==
    \E i \in DOMAIN sOut[1].subtitles : sOut[1].subtitles[i] = SubPath(d, e)

\* The parent directory left the list empty.
ParentGaveNothing ==
    \/ ~sIn.parent.listable
    \/ /\ StrictIn(sOut[1].stem, sIn.parent) = {}
       /\ LooseOnlyIn(sOut[1].stem, sIn.parent) = {}

WholeLink == ha.dir.dst = ha.src
WholeCopy ==
    /\ ha.dir.dst # None
    /\ ha.dir.dst.content = ha.src.content
    /\ ha.dir.dst.inode # ha.src.inode

\* C29: at every point of hardlink_atomic the destination is as it was
\* before the call or is a whole link or copy of the source; when os.link
\* fails and fallback_copy is unset or the errno is not EPERM, EXDEV or
\* EACCES, the error escapes and the destination is as it was; with
\* fallback_copy and one of these errnos the file is copied, and what
\* returns leaves a whole copy.
C29_DestinationNeverPartial ==
    ha # <<>> =>
        /\ ha.dir.dst = ha.prior \/ WholeLink \/ WholeCopy
        /\ ha.pc = "raised" => ha.dir.dst = ha.prior
        /\ (ha.errno # ""
                /\ ~(ha.fallback_copy /\ ha.errno \in {"EPERM", "EXDEV", "EACCES"}))
               => (ha.pc = "raised" /\ ha.written = -1)
        /\ (ha.errno # ""
                /\ ha.fallback_copy /\ ha.errno \in {"EPERM", "EXDEV", "EACCES"})
               => /\ ha.pc \in {"copy", "replace", "returned", "raised"}
                  /\ ha.pc = "returned" => WholeCopy
        /\ (ha.pc = "returned" /\ ha.errno = "") => WholeLink

\* os.link failed with EXDEV, the copy was made over a destination that held
\* another file, and hardlink_atomic returned.
C29_Witness ==
    /\ ha # <<>>
    /\ ha.pc = "returned"
    /\ ha.errno = "EXDEV"
    /\ ha.prior # None
    /\ WholeCopy

\* ------------------------------------------------------- claims on link.py
\* The record of number i is dealt with; the files made from its source;
\* the choices prompt_work_on_file returned for it, in that order.
Finished(i) == rec_idx > i \/ lpc = "done"
MadeFor(i) == {m \in library : m.src = i}
AnswersFor(i) ==
    SelectSeq(trail, LAMBDA t : t.idx = i /\ t.ev = "answer")
Last(q) == q[Len(q)]

\* -------------------------------------------------------------------- C21
\* C21: nothing but results is written to standard output, and logs and
\* prompts are written to standard error only.
C21_StdoutOnlyResults ==
    /\ \A j \in DOMAIN lout : lout[j].kind = "result"
    /\ \A j \in DOMAIN lerr : lerr[j].kind \in {"log", "prompt"}

\* -------------------------------------------------------------------- C22
\* NN as the claim writes it: two digits.
TwoDigits(n) == IF Len(n) = 1 THEN <<"0">> \o n ELSE n

\* The path the claim derives from the answers of a manual entry.
Derived(val) ==
    IF val.kind = "tv"
    THEN <<"TV Shows",
           val.series \o (IF val.tmdb = <<>> THEN <<>>
                          ELSE <<" ", "-", " ", "{", "t", "m", "d", "b", "-">>
                                   \o val.tmdb \o <<"}">>),
           <<"S", "e", "a", "s", "o", "n", " ">> \o TwoDigits(val.sn),
           val.series \o <<" ", "-", " ", "s">> \o TwoDigits(val.sn) \o <<"e">>
               \o TwoDigits(val.en) \o <<".", "m", "k", "v">>>>
    ELSE <<"Movies",
           val.title \o <<" ", "(">> \o val.year
               \o <<")", " ", "-", " ", "{", "t", "m", "d", "b", "-">>
               \o (IF val.tmdb = <<>> THEN <<"u", "n", "k", "n", "o", "w", "n">>
                   ELSE val.tmdb)
               \o <<"}">>,
           val.title \o <<" ", "(">> \o val.year \o <<")", ".", "m", "k", "v">>>>

\* The manual entries with valid answers of the records the user answered
\* 'y' for, in interactive mode, that are dealt with.
ValidEntries ==
    {j \in DOMAIN trail :
        /\ largs.interactive
        /\ trail[j].ev = "manual" /\ trail[j].val.kind # "aborted"
        /\ AnswersFor(trail[j].idx) # <<>>
        /\ Last(AnswersFor(trail[j].idx)).val = <<"y">>
        /\ Finished(trail[j].idx)}

\* What hardlink_atomic did for record i: "link", "copy", "raise", or
\* "none" when it was not called.
Linking(i) ==
    IF \E j \in DOMAIN trail : trail[j].idx = i /\ trail[j].ev = "link"
    THEN (CHOOSE t \in Range(trail) : t.idx = i /\ t.ev = "link").val
    ELSE "none"

Chose(ch) ==
    {j \in DOMAIN trail : trail[j].ev = "answer" /\ trail[j].val = ch}

\* The results written for record i.
ResultsFor(i) ==
    SelectSeq(lout, LAMBDA r : r.kind = "result" /\ r.idx = i)

\* C26: once the user has chosen 'i' for a record, nothing more is asked,
\* FileBot is not run and nothing is linked or copied; that record and each
\* later record whose source is there gets the result ignored-all, a record
\* whose source is missing gets missing-src, and the run ends with status 0.
C26_IgnoreAllSticks ==
    \A j \in Chose(<<"i">>) :
        LET k == trail[j].idx
        IN  /\ j = Len(trail)
            /\ ignore_all
            /\ lpc \in {"record", "done"} /\ lexit \in {-1, 0}
            /\ rec_idx > k
            /\ \A m \in library : m.src < k
            /\ \A n \in DOMAIN lout : lout[n].idx > k => lout[n].kind = "result"
            /\ \A n \in DOMAIN lerr : lerr[n].idx > k => lerr[n].kind = "log"
            /\ \A i \in k .. Len(inputs) :
                   /\ Len(ResultsFor(i)) <= 1
                   /\ (i < rec_idx) =>
                          ResultsFor(i) =
                              <<Result(i, FALSE,
                                       IF inputs[i].is_file THEN "ignored-all"
                                       ELSE "missing-src")>>

\* The user chose 'i' for the first of two records whose sources are there,
\* and the run is over.
C26_Witness ==
    /\ Chose(<<"i">>) # {}
    /\ trail[1].idx = 1 /\ trail[1].val = <<"i">>
    /\ Len(inputs) >= 2 /\ inputs[2].is_file
    /\ lpc = "done"
    /\ ResultsFor(2) = <<Result(2, FALSE, "ignored-all")>>

\* C27: when the user chooses 'q' for a record, the result aborted-by-user
\* is written for it and the run ends with status 130; nothing is asked,
\* logged, linked or written for a later record.
C27_QuitStops ==
    \A j \in Chose(<<"q">>) :
        LET k == trail[j].idx
        IN  /\ j = Len(trail)
            /\ lpc = "done" /\ lexit = 130 /\ rec_idx = k
            /\ lout # <<>> /\ Last(lout) = Result(k, FALSE, "aborted-by-user")
            /\ Len(ResultsFor(k)) = 1
            /\ \A n \in DOMAIN lout : lout[n].idx <= k
            /\ \A n \in DOMAIN lerr : lerr[n].idx <= k
            /\ \A m \in library : m.src < k

\* The user chose 'q' for the first of two records whose sources are there.
C27_Witness ==
    /\ Chose(<<"q">>) # {}
    /\ rec_idx = 1 /\ Len(inputs) = 2
    /\ inputs[1].is_file /\ inputs[2].is_file
    /\ lexit = 130

\* -------------------------------------------------------------------- C28
\* C28: in interactive mode FileBot is run for a record, or the manual entry
\* or the link made, only if the last choice for the record was 'y' or 'a',
\* or 'a' was chosen for an earlier record.
C28_OnlyYesOrAll ==
    largs # <<>> /\ largs.interactive =>
        \A j \in DOMAIN trail :
            trail[j].ev \in {"amc", "confirm", "manual", "link"} =>
                LET i == trail[j].idx
                IN  \/ /\ AnswersFor(i) # <<>>
                       /\ Last(AnswersFor(i)).val \in {<<"y">>, <<"a">>}
                    \/ \E n \in Chose(<<"a">>) : trail[n].idx < i

\* -------------------------------------------------------------------- C30
\* C30: every row of the cache is truthful: a row whose mtime and size are
\* those the file has holds the digest of the content the file has.  In the
\* runs of SpecRace a rewrite gives the file an mtime it never had, so the
\* content a file had with an mtime is the one it has with it.
C30_RowsTruthful ==
    \A r \in cache :
        LET f == fs[r.path]
        IN  (f.exists /\ f.mtime = r.mtime /\ Len(f.content) = r.size) =>
                r.hash = hash_file(f.content, r.algo, r.method, r.chunk_size)

\* ------------------------------------------------------------------ C31
\* The lines of standard output that report a missing file.
Emitted == {stdout[j] : j \in {k \in DOMAIN stdout :
                                   stdout[k].kind \in {"json", "text"}}}

\* No scanned source file has a digest in this run: each one failed at its
\* stat or in its worker.
NoSourceDigest == \A p \in PathsOf(src_files) : cur[p].digest = None

\* C31: every path of the missing list and every record written to standard
\* output is a source file that has a digest in this run (served from the
\* cache or computed), so a source file whose hashing failed is never
\* reported; and when main has reached the comparison and no source file
\* has a digest, the missing list is empty, the run has ended with exit
\* status 0, and standard output holds the line "All matched." in the text
\* format and nothing in the jsonl format.
C31_OnlyHashedReported ==
    /\ \A j \in DOMAIN missing :
           /\ missing[j] \in PathsOf(src_files)
           /\ cur[missing[j]].digest # None
           /\ HashError(missing[j]) \notin Range(stderr)
    /\ \A l \in Emitted :
           /\ l.src \in Range(missing)
           /\ cur[l.src].digest # None
    /\ (AfterDiff /\ NoSourceDigest) =>
           /\ missing = <<>>
           /\ pc = "done"
           /\ exit_code = 0
           /\ stdout = IF cfg.format = "text" THEN <<AllMatched>> ELSE <<>>

\* A run has ended with status 0 and nothing reported although its only
\* hashed source file, whose content no destination file has, failed in the
\* worker and had its diagnostic written.
C31_Witness ==
    /\ pc = "done" /\ exit_code = 0
    /\ src_files # <<>>
    /\ NoSourceDigest
    /\ Emitted = {}
    /\ \E p \in PathsOf(src_files) :
           /\ HashError(p) \in Range(stderr)
           /\ fs[p].exists
           /\ hash_file(fs[p].content, Algo, cfg.method, ChunkSize)
                  \notin Keys(dst_hashes)
    /\ dst_hashes # <<>>

====
